---- MODULE Spec2Model ----
(***************************************************************************)
(* State-machine model of the VPC management service:                      *)
(*   app/cloud/ec2.py       create_vpc_with_subnets, _cleanup_on_error,    *)
(*                          delete_vpc_resources                           *)
(*   app/services/vpc.py    provision_vpc, remove_vpc_record               *)
(*   app/apis/vpc.py        create_vpc, delete_vpc                         *)
(*   app/dao/base.py        VPCRepository (save / delete)                  *)
(*                                                                         *)
(* Every EC2 call and every repository call is one step of the request     *)
(* that makes it.  A call either succeeds or raises botocore's ClientError *)
(* with an error code; which one is the environment's choice.              *)
(* Requests are indexed by the worker that serves them.                    *)
(*                                                                         *)
(* _ec2_client() is taken to return a client: it reads config.AWS_REGION,  *)
(* config.AWS_ACCESS_KEY_ID and config.AWS_SECRET_ACCESS_KEY, which the    *)
(* deployment must provide (app/config.py as it stands defines only        *)
(* `settings`, whose aws_region defaults to "us-east-1").                  *)
(***************************************************************************)
EXTENDS Integers, Sequences, FiniteSets, TLC

\* ------------------------------------------------------------------ bounds
NumProcs == 2
MaxSubnets == 3
MaxVpcs == 1
MaxRecords == 2
MaxCalls == 2

Procs == 1..NumProcs
\* Spec serves one request at a time, on this worker.
Workers == {1}

\* ------------------------------------------------------------- identifiers
\* Provider-assigned identifiers.  The provider hands out fresh ids; the n-th
\* network is <<"vpc", n>>, its gateway <<"igw", n>> and the subnet made by
\* its i-th successful create_subnet call <<"subnet", n, i>>.
NoId == <<>>
VpcIdOf(n) == <<"vpc", n>>
IgwIdFor(vpc) == <<"igw", vpc[2]>>
SubnetIdFor(vpc, i) == <<"subnet", vpc[2], i>>

\* Optional[str]: None is <<>>, a string s is <<s>>.
PyNone == <<>>
Some(s) == <<s>>

\* ------------------------------------------------------------------ errors
\* botocore ClientError: the failed call, what it was called on, and
\* exc.response["Error"]["Code"].
ErrorCodes == {"DependencyViolation", "InternalError"}
NoErr == [call |-> "", target |-> NoId, code |-> ""]
ClientError(call, target, code) == [call |-> call, target |-> target, code |-> code]

\* HTTP status codes used by the routes.
HTTP_200_OK == 200
HTTP_201_CREATED == 201
HTTP_204_NO_CONTENT == 204
HTTP_401_UNAUTHORIZED == 401
HTTP_404_NOT_FOUND == 404
HTTP_409_CONFLICT == 409
HTTP_502_BAD_GATEWAY == 502

\* ------------------------------------------------------------------ inputs
\* Request subnets (schemas.SubnetRequest): a name that is omitted, empty,
\* or given.
SubnetSpecs ==
    << [cidr |-> "10.0.1.0/24", az |-> "us-east-1a", name |-> PyNone],
       [cidr |-> "10.0.2.0/24", az |-> "us-east-1b", name |-> Some("web")],
       [cidr |-> "10.0.3.0/24", az |-> "us-east-1c", name |-> Some("")] >>

\* The subnets of a request with n subnets: SubnetSpecs in order, cycling,
\* so that the names run omitted, given, empty, omitted, ...
RequestSubnets(n) ==
    [i \in 1..n |-> SubnetSpecs[((i - 1) % Len(SubnetSpecs)) + 1]]

\* CreateVPCRequest bodies that pass validation (at least one subnet).
CreateRequests ==
    { [vpc_cidr |-> "10.0.0.0/16", vpc_name |-> "my-vpc",
       subnets |-> RequestSubnets(n)] : n \in 1..MaxSubnets }

\* validate_vpc_cidr: net.prefixlen > 28 or net.prefixlen < 16 is rejected.
MinPrefix == 16
MaxPrefix == 28

\* Bodies sent to POST /vpc in SpecApi: valid ones with one and two subnets,
\* and ones that fail validation: a prefix just outside the range on either
\* side, a bare address, text that is no CIDR, and no subnets.
SmallSubnetCounts == {1, 2}
ApiRequests ==
    { [vpc_cidr |-> "10.0.0.0/16", vpc_name |-> "my-vpc",
       subnets |-> RequestSubnets(n)] : n \in SmallSubnetCounts }
    \cup
    { [vpc_cidr |-> c, vpc_name |-> "my-vpc", subnets |-> RequestSubnets(1)] :
         c \in {"10.0.0.0/15", "10.0.0.0/29", "10.0.0.0", "not-a-cidr"} }
    \cup
    { [vpc_cidr |-> "10.0.0.0/16", vpc_name |-> "my-vpc", subnets |-> <<>>] }

NoRequest == [vpc_cidr |-> "", vpc_name |-> "", subnets |-> <<>>]

\* ------------------------------------------------------------------- state
VARIABLES
    store,            \* repository: vpc_id -> stored record
    live,             \* provider: ids of the resources that exist
    nextVpc,          \* provider: number of the next network id
    quota,            \* provider: how many networks the account may create
    pc,               \* per worker: the call it is about to make
    op,               \* per worker: "create", "delete", "teardown" or ""
    store0,           \* per worker: the repository as its request found it
    req,              \* per worker: the CreateVPCRequest body
    arg,              \* per worker: vpc_id / subnet_ids / igw_id arguments
    vpc_id,           \* create_vpc_with_subnets local
    igw_id,           \* create_vpc_with_subnets local
    created_subnets,  \* create_vpc_with_subnets local
    idx,              \* index of the loop in progress (0-based, as enumerate)
    exc,              \* the exception being handled by an except block
    record,           \* provision_vpc local: what create_vpc_with_subnets returned
    log,              \* provider calls issued by this request, in order
    raised,           \* what the orchestration function raised to its caller
    saved,            \* repo.save was called by this request
    response,         \* the route's answer
    known,            \* history: vpc_id -> record, as the answers given so far imply
    gone,             \* history: ids whose record was deleted and not saved since
    self_table,       \* DynamoDBVPCRepository._table: 0 is None, else a handle
    table_exists,     \* DynamoDB: the table exists in the backend
    tpc,              \* per thread: its position in _get_table
    calls,            \* per thread: how many times it has called _get_table
    ddb,              \* _get_table local: the resource (number of the run that built it)
    table,            \* _get_table local: the Table handle
    inits,            \* history: initialisation sequences started (line 62 reached)
    aborted,          \* history: initialisation sequences that ended in raise
    token,            \* per worker: the Authorization header of its request
    form              \* per worker: the OAuth2PasswordRequestForm of a login

provVars == <<live, nextVpc, quota>>
repoVars == <<store, known, gone>>
reqVars == <<op, store0, req, arg>>
localVars == <<vpc_id, igw_id, created_subnets, idx, exc, record>>
outVars == <<raised, saved, response>>
vars == <<store, live, nextVpc, quota, pc, op, store0, req, arg, vpc_id, igw_id,
          created_subnets, idx, exc, record, log, raised, saved, response,
          known, gone, self_table, table_exists, tpc, calls, ddb, table,
          inits, aborted, token, form>>
authVars == <<token, form>>
tableVars == <<self_table, table_exists, tpc, calls, ddb, table, inits, aborted>>

NoArg == [vpc_id |-> NoId, subnet_ids |-> <<>>, igw_id |-> NoId]
NoResponse == [status |-> 0, body |-> <<>>, detail |-> NoErr]

\* ------------------------------------------------------------ bearer tokens
\* settings.jwt_secret_key and settings.jwt_expire_minutes (defaults).
jwt_secret_key == "changeme-super-secret-key"
jwt_expire_minutes == 60

\* A JWT: its 'sub' claim (absent: None), the key that signed it, and whether
\* its 'exp' claim lies in the future or in the past when it is decoded.
Jwt(sub, key, exp) == [sub |-> sub, key |-> key, exp |-> exp]

\* A request without an Authorization header.
NoToken == <<>>

\* The identity the test setup injects (conftest.py), and the token that
\* carries it.
CurrentUser == "test-user"
ValidToken == Jwt(Some(CurrentUser), jwt_secret_key, "future")

\* The headers a request may carry: none, a good token, one signed with
\* another key, one that expired, one without a subject.
Tokens ==
    {NoToken,
     ValidToken,
     Jwt(Some(CurrentUser), "another-key", "future"),
     Jwt(Some(CurrentUser), jwt_secret_key, "past"),
     Jwt(PyNone, jwt_secret_key, "future")}

\* create_access_token: 'sub' is the subject, 'exp' is now plus
\* jwt_expire_minutes, signed with the configured key.
create_access_token(subject) ==
    Jwt(Some(subject), jwt_secret_key,
        IF jwt_expire_minutes > 0 THEN "future" ELSE "past")

\* decode_access_token: jwt.decode raises JWTError for a bad signature or an
\* expired token, which becomes None; otherwise payload.get("sub").
decode_access_token(t) ==
    IF t.key = jwt_secret_key /\ t.exp = "future" THEN t.sub ELSE PyNone

\* oauth2_scheme followed by get_current_user: the username, or None where
\* either raises HTTPException(401) (no header; decode gave None).
get_current_user(t) ==
    IF t = NoToken THEN PyNone ELSE decode_access_token(t)

\* Variant: the routes depend on oauth2_scheme alone, so that any header
\* passes.
AuthenticatedIfPresent(p) == token[p] # NoToken

\* current_user: str = Depends(get_current_user) of the four /vpc routes:
\* the route body runs only when the dependency returned a username.
Authenticated(p) == get_current_user(token[p]) # PyNone

\* The login form before a login request arrives.
NoForm == [username |-> "", password |-> ""]

\* The routes other than login are modelled with the caller signed in.
SignedIn ==
    /\ token = [p \in Procs |-> ValidToken]
    /\ form = [p \in Procs |-> NoForm]

\* The routes are modelled with the table handle already cached.
TableCached ==
    /\ self_table = 1
    /\ table_exists = TRUE
    /\ tpc = [t \in Procs |-> "idle"]
    /\ calls = [t \in Procs |-> 0]
    /\ ddb = [t \in Procs |-> 0]
    /\ table = [t \in Procs |-> 0]
    /\ inits = 1
    /\ aborted = 0

Init ==
    /\ TableCached
    /\ SignedIn
    /\ store = << >>
    /\ live = {}
    /\ nextVpc = 1
    /\ quota = MaxVpcs
    /\ pc = [p \in Procs |-> "idle"]
    /\ op = [p \in Procs |-> ""]
    /\ store0 = [p \in Procs |-> << >>]
    /\ req = [p \in Procs |-> NoRequest]
    /\ arg = [p \in Procs |-> NoArg]
    /\ vpc_id = [p \in Procs |-> NoId]
    /\ igw_id = [p \in Procs |-> NoId]
    /\ created_subnets = [p \in Procs |-> <<>>]
    /\ idx = [p \in Procs |-> 0]
    /\ exc = [p \in Procs |-> NoErr]
    /\ record = [p \in Procs |-> <<>>]
    /\ log = [p \in Procs |-> <<>>]
    /\ raised = [p \in Procs |-> NoErr]
    /\ saved = [p \in Procs |-> FALSE]
    /\ response = [p \in Procs |-> NoResponse]
    /\ known = << >>
    /\ gone = {}

\* ----------------------------------------------------------------- helpers
Range(s) == {s[i] : i \in 1..Len(s)}

\* One provider call recorded in the request's call log.
LogCall(p, call, target, ok) ==
    log' = [log EXCEPT ![p] = Append(@, [call |-> call, target |-> target, ok |-> ok])]

\* Variant: put_item is conditional on the key being new, and an existing
\* item is kept.
RepoSaveKeepsExisting(s, item) ==
    [k \in (DOMAIN s) \cup {item.vpc_id} |->
        IF k \in DOMAIN s THEN s[k] ELSE item]

\* repo.save (VPCRepository.save): upsert by vpc_id, full replace.
RepoSave(s, item) ==
    [k \in (DOMAIN s) \cup {item.vpc_id} |->
        IF k = item.vpc_id THEN item ELSE s[k]]

\* Variant: delete marks the item as deleted and keeps it in the table.
RepoDeleteSoft(s, id) ==
    [k \in DOMAIN s |-> IF k = id THEN [s[k] EXCEPT !.status = "deleted"] ELSE s[k]]

\* Variant: delete reads the item (to report whether it existed) and never
\* removes it.
RepoDeleteOnlyReads(s, id) == s

\* repo.delete (VPCRepository.delete): the store without vpc_id.
RepoDelete(s, id) == [k \in (DOMAIN s) \ {id} |-> s[k]]

\* History bookkeeping: f with id bound to v, and f without id.
Upsert(f, id, v) == [k \in (DOMAIN f) \cup {id} |-> IF k = id THEN v ELSE f[k]]
Without(f, id) == [k \in (DOMAIN f) \ {id} |-> f[k]]

\* The CidrBlock argument of a create_subnet call, as a call target.
CidrArg(subnet_spec) == <<"cidr", subnet_spec.cidr>>

\* f"{vpc_name}-subnet-{idx + 1}"
AutoSubnetName(vpc_name, i) == vpc_name \o "-subnet-" \o ToString(i + 1)

\* Variant: the generated name uses the 0-based loop index.
SubnetNameZeroBased(subnet_spec, vpc_name, i) ==
    IF subnet_spec.name # PyNone /\ subnet_spec.name[1] # ""
    THEN subnet_spec.name[1]
    ELSE vpc_name \o "-subnet-" \o ToString(i)

\* subnet_spec.get("name") or f"{vpc_name}-subnet-{idx + 1}":
\* None and the empty string are both falsy.
SubnetName(subnet_spec, vpc_name, i) ==
    IF subnet_spec.name # PyNone /\ subnet_spec.name[1] # ""
    THEN subnet_spec.name[1]
    ELSE AutoSubnetName(vpc_name, i)

\* The entry appended to created_subnets after a successful create_subnet.
SubnetEntry(subnet_id, subnet_spec, subnet_name) ==
    [subnet_id |-> subnet_id,
     cidr |-> subnet_spec.cidr,
     availability_zone |-> subnet_spec.az,
     name |-> subnet_name]

\* The record returned by create_vpc_with_subnets (tags and created_at are
\* carried through unread and left out).
MakeRecord(vpc, igw, r, subnets) ==
    [vpc_id |-> vpc,
     vpc_name |-> r.vpc_name,
     vpc_cidr |-> r.vpc_cidr,
     igw_id |-> igw,
     region |-> "us-east-1",
     subnets |-> subnets,
     created_by |-> CurrentUser,
     status |-> "active"]

\* Variant: the record is built before the gateway id is known.
BuildRecordNoGateway(p, subnets) == MakeRecord(vpc_id[p], NoId, req[p], subnets)

BuildRecord(p, subnets) == MakeRecord(vpc_id[p], igw_id[p], req[p], subnets)

\* created_subnets when every create_subnet of request r succeeded.
CreatedSubnets(vpc, r) ==
    [i \in 1..Len(r.subnets) |->
        SubnetEntry(SubnetIdFor(vpc, i), r.subnets[i],
                    SubnetName(r.subnets[i], r.vpc_name, i - 1))]

\* What create_vpc_with_subnets returns for request r when every call
\* succeeds and the provider hands out network number n.
RecordFor(n, r) ==
    MakeRecord(VpcIdOf(n), IgwIdFor(VpcIdOf(n)), r, CreatedSubnets(VpcIdOf(n), r))

\* [s["subnet_id"] for s in created_subnets]
SubnetIds(subnets) == [i \in 1..Len(subnets) |-> subnets[i].subnet_id]

\* Variant: the cleanup loop runs over reversed(subnet_ids).
CleanupOrderReversed(subnet_ids) ==
    [i \in 1..Len(subnet_ids) |-> subnet_ids[Len(subnet_ids) + 1 - i]]

\* for subnet_id in subnet_ids: the order in which _cleanup_on_error visits.
CleanupOrder(subnet_ids) == subnet_ids

\* Variant: teardown deletes the subnets last-created first.
TeardownOrderReversed(subnet_ids) ==
    [i \in 1..Len(subnet_ids) |-> subnet_ids[Len(subnet_ids) + 1 - i]]

\* for subnet_id in subnet_ids or []: the order in which teardown visits.
TeardownOrder(subnet_ids) == subnet_ids

\* Variant: the except block of the route logs the error and answers as
\* if the creation had succeeded.
CreateFailedAnswersCreated(p, e) ==
    /\ response' = [response EXCEPT ![p] =
            [status |-> HTTP_201_CREATED, body |-> <<>>, detail |-> NoErr]]
    /\ pc' = [pc EXCEPT ![p] = "done"]

\* -------------------------------------------------- POST /vpc (create_vpc)
\* create_vpc's except Exception: HTTP 502 with the error in the detail.
\* e is what provision_vpc raised.
CreateFailed(p, e) ==
    /\ response' = [response EXCEPT ![p] =
            [status |-> HTTP_502_BAD_GATEWAY, body |-> <<>>, detail |-> e]]
    /\ pc' = [pc EXCEPT ![p] = "done"]

\* A provider call of create_vpc_with_subnets outside any try block that
\* cleans up: the ClientError leaves the function and reaches the route.
Propagate(p, e) ==
    /\ raised' = [raised EXCEPT ![p] = e]
    /\ CreateFailed(p, e)

\* Variant: create_vpc's except block logs the error and does not raise, so
\* the function carries on.
CreateVpcFailedSwallowed(p, e) ==
    /\ pc' = [pc EXCEPT ![p] = "dns_hostnames"]
    /\ UNCHANGED <<raised, response>>

\* ec2.create_vpc raised: the except block logs and re-raises, nothing else
\* is called.
CreateVpcFailed(p, e) == Propagate(p, e)

\* Variant: the call is wrapped in a try block that starts tearing the
\* network down before the error leaves the function.
UncaughtCleansUp(p, e) ==
    /\ pc' = [pc EXCEPT ![p] = "cleanup_delete_vpc"]
    /\ UNCHANGED <<raised, response>>

\* modify_vpc_attribute, create_internet_gateway and attach_internet_gateway
\* are called outside any try block: their ClientError leaves
\* create_vpc_with_subnets at once.
Uncaught(p, e) == Propagate(p, e)

\* ---- request validation (pydantic, before the route function is called)
\* Network addresses and prefix lengths a CIDR text may carry.
Nets == {"10.0.0.0", "10.0.1.0", "10.0.2.0", "10.0.3.0"}
PrefixLens == 0..32
CidrText(net, n) == net \o "/" \o ToString(n)

\* ipaddress.IPv4Network(v, strict=False).prefixlen: the number after the
\* slash, 32 for a bare address, and -1 where IPv4Network raises ValueError.
PrefixLen(v) ==
    IF \E net \in Nets, n \in PrefixLens : v = CidrText(net, n)
    THEN CHOOSE n \in PrefixLens : \E net \in Nets : v = CidrText(net, n)
    ELSE IF v \in Nets THEN 32 ELSE -1

\* SubnetRequest.validate_cidr
ValidSubnetCidr(v) == PrefixLen(v) # -1

\* Variant: the validator only parses the CIDR and checks no range.
ValidVpcCidrNoRange(v) == PrefixLen(v) # -1

\* CreateVPCRequest.validate_vpc_cidr: a ValueError from the parse or from
\* the range test rejects the request.
ValidVpcCidr(v) ==
    /\ PrefixLen(v) # -1
    /\ ~(PrefixLen(v) > MaxPrefix \/ PrefixLen(v) < MinPrefix)

\* Variant: the subnets field has no min_length.
ValidSubnetsNoMinimum(subnets) ==
    \A i \in 1..Len(subnets) : ValidSubnetCidr(subnets[i].cidr)

\* subnets: list[SubnetRequest] = Field(..., min_length=1)
ValidSubnets(subnets) ==
    /\ Len(subnets) >= 1
    /\ \A i \in 1..Len(subnets) : ValidSubnetCidr(subnets[i].cidr)

ValidRequest(r) == ValidVpcCidr(r.vpc_cidr) /\ ValidSubnets(r.subnets)

\* The body fails validation: the framework answers 422 and create_vpc is
\* never called.
RejectCreate(p, r) ==
    /\ pc[p] = "idle"
    /\ Authenticated(p)
    /\ ~ValidRequest(r)
    /\ pc' = [pc EXCEPT ![p] = "done"]
    /\ op' = [op EXCEPT ![p] = "create"]
    /\ store0' = [store0 EXCEPT ![p] = store]
    /\ req' = [req EXCEPT ![p] = r]
    /\ response' = [response EXCEPT ![p] =
            [status |-> 422, body |-> <<>>, detail |-> NoErr]]
    /\ UNCHANGED <<arg, localVars, log, raised, saved, provVars, repoVars>>
    /\ UNCHANGED <<tableVars, authVars>>

BeginCreate(p, r) ==
    /\ pc[p] = "idle"
    /\ Authenticated(p)
    /\ ValidRequest(r)
    /\ pc' = [pc EXCEPT ![p] = "create_vpc"]
    /\ op' = [op EXCEPT ![p] = "create"]
    /\ store0' = [store0 EXCEPT ![p] = store]
    /\ req' = [req EXCEPT ![p] = r]
    /\ UNCHANGED <<arg, localVars, log, outVars, provVars, repoVars>>
    /\ UNCHANGED <<tableVars, authVars>>

\* 1. ec2.create_vpc
CreateVpc(p) ==
    /\ pc[p] = "create_vpc"
    /\ \/ /\ nextVpc <= quota
          /\ vpc_id' = [vpc_id EXCEPT ![p] = VpcIdOf(nextVpc)]
          /\ live' = live \cup {VpcIdOf(nextVpc)}
          /\ nextVpc' = nextVpc + 1
          /\ UNCHANGED quota
          /\ LogCall(p, "create_vpc", NoId, TRUE)
          /\ pc' = [pc EXCEPT ![p] = "dns_hostnames"]
          /\ UNCHANGED <<raised, response>>
       \/ /\ \E code \in ErrorCodes :
                CreateVpcFailed(p, ClientError("create_vpc", NoId, code))
          /\ LogCall(p, "create_vpc", NoId, FALSE)
          /\ UNCHANGED <<vpc_id, live, nextVpc, quota>>
    /\ UNCHANGED <<reqVars, igw_id, created_subnets, idx, exc, record, saved, repoVars>>
    /\ UNCHANGED <<tableVars, authVars>>

\* 2. ec2.modify_vpc_attribute(EnableDnsHostnames), then (EnableDnsSupport)
ModifyVpcAttribute(p, at, call, next) ==
    /\ pc[p] = at
    /\ \/ /\ LogCall(p, call, vpc_id[p], TRUE)
          /\ pc' = [pc EXCEPT ![p] = next]
          /\ UNCHANGED <<raised, response>>
       \/ /\ \E code \in ErrorCodes :
                Uncaught(p, ClientError(call, vpc_id[p], code))
          /\ LogCall(p, call, vpc_id[p], FALSE)
    /\ UNCHANGED <<reqVars, localVars, saved, provVars, repoVars>>
    /\ UNCHANGED <<tableVars, authVars>>

\* Variant: the two modify_vpc_attribute calls are made in the other order.
EnableDnsHostnamesSecond(p) ==
    ModifyVpcAttribute(p, "dns_hostnames", "enable_dns_support", "dns_support")

EnableDnsHostnames(p) ==
    ModifyVpcAttribute(p, "dns_hostnames", "enable_dns_hostnames", "dns_support")

EnableDnsSupport(p) ==
    ModifyVpcAttribute(p, "dns_support", "enable_dns_support", "create_igw")

\* 3. ec2.create_internet_gateway
CreateInternetGateway(p) ==
    /\ pc[p] = "create_igw"
    /\ \/ /\ igw_id' = [igw_id EXCEPT ![p] = IgwIdFor(vpc_id[p])]
          /\ live' = live \cup {IgwIdFor(vpc_id[p])}
          /\ LogCall(p, "create_internet_gateway", NoId, TRUE)
          /\ pc' = [pc EXCEPT ![p] = "attach_igw"]
          /\ UNCHANGED <<raised, response>>
       \/ /\ \E code \in ErrorCodes :
                Uncaught(p, ClientError("create_internet_gateway", NoId, code))
          /\ LogCall(p, "create_internet_gateway", NoId, FALSE)
          /\ UNCHANGED <<igw_id, live>>
    /\ UNCHANGED <<reqVars, vpc_id, created_subnets, idx, exc, record, saved, nextVpc, quota, repoVars>>
    /\ UNCHANGED <<tableVars, authVars>>

\* ec2.attach_internet_gateway
AttachInternetGateway(p) ==
    /\ pc[p] = "attach_igw"
    /\ \/ /\ LogCall(p, "attach_internet_gateway", igw_id[p], TRUE)
          /\ IF Len(req[p].subnets) > 0
             THEN /\ pc' = [pc EXCEPT ![p] = "create_subnet"]
                  /\ UNCHANGED record
             ELSE \* the subnet loop has nothing to do
                  /\ pc' = [pc EXCEPT ![p] = "save"]
                  /\ record' = [record EXCEPT ![p] = <<BuildRecord(p, <<>>)>>]
          /\ UNCHANGED <<raised, response>>
       \/ /\ \E code \in ErrorCodes :
                Uncaught(p, ClientError("attach_internet_gateway", igw_id[p], code))
          /\ LogCall(p, "attach_internet_gateway", igw_id[p], FALSE)
          /\ UNCHANGED record
    /\ UNCHANGED <<reqVars, vpc_id, igw_id, created_subnets, idx, exc, saved,
                   provVars, repoVars>>
    /\ UNCHANGED <<tableVars, authVars>>

\* Variant: the cleanup is handed no subnet ids and starts at the gateway.
CleanupEntryNoSubnets(subnet_ids) == "cleanup_detach"

\* Variant: the except block of the subnet loop logs the error and lets the
\* loop run on.
CleanupEntryContinues(subnet_ids) == "create_subnet"

\* Where the except block of the subnet loop goes first: _cleanup_on_error's
\* subnet loop, or past it when no subnet was created.
CleanupEntry(subnet_ids) ==
    IF Len(subnet_ids) > 0 THEN "cleanup_subnets" ELSE "cleanup_detach"

\* 4. one iteration of the subnet loop: ec2.create_subnet for
\* subnets[idx]; on ClientError the except block starts _cleanup_on_error.
CreateSubnet(p) ==
    /\ pc[p] = "create_subnet"
    /\ idx[p] < Len(req[p].subnets)
    /\ LET subnet_spec == req[p].subnets[idx[p] + 1]
           subnet_name == SubnetName(subnet_spec, req[p].vpc_name, idx[p])
           subnet_id == SubnetIdFor(vpc_id[p], idx[p] + 1)
           entry == SubnetEntry(subnet_id, subnet_spec, subnet_name)
       IN \/ /\ created_subnets' = [created_subnets EXCEPT ![p] = Append(@, entry)]
             /\ live' = live \cup {subnet_id}
             /\ LogCall(p, "create_subnet", CidrArg(subnet_spec), TRUE)
             /\ idx' = [idx EXCEPT ![p] = @ + 1]
             /\ IF idx[p] + 1 < Len(req[p].subnets)
                THEN /\ pc' = [pc EXCEPT ![p] = "create_subnet"]
                     /\ UNCHANGED record
                ELSE /\ pc' = [pc EXCEPT ![p] = "save"]
                     /\ record' = [record EXCEPT ![p] =
                            <<BuildRecord(p, Append(created_subnets[p], entry))>>]
             /\ UNCHANGED exc
          \/ /\ \E code \in ErrorCodes :
                   exc' = [exc EXCEPT ![p] =
                        ClientError("create_subnet", CidrArg(subnet_spec), code)]
             /\ LogCall(p, "create_subnet", CidrArg(subnet_spec), FALSE)
             /\ idx' = [idx EXCEPT ![p] = 0]
             /\ pc' = [pc EXCEPT ![p] = CleanupEntry(SubnetIds(created_subnets[p]))]
             /\ UNCHANGED <<created_subnets, live, record>>
    /\ UNCHANGED <<reqVars, vpc_id, igw_id, outVars, nextVpc, quota, repoVars>>
    /\ UNCHANGED <<tableVars, authVars>>

\* ------------------------------------------------------ _cleanup_on_error
\* Variant: the gateway delete is left out of the cleanup.
AfterCleanupDetachSkip(ok) == "cleanup_delete_vpc"

\* Variant: the gateway try block re-raises, so a failed detach ends the
\* cleanup.
AfterCleanupDetachAbort(ok) ==
    IF ok THEN "cleanup_delete_igw" ELSE "done"

\* Variant: a failed detach is tried again until it succeeds.
AfterCleanupDetachRetries(ok) ==
    IF ok THEN "cleanup_delete_igw" ELSE "cleanup_detach"

\* Where _cleanup_on_error goes after ec2.detach_internet_gateway: detach and
\* delete share one try block, so a failed detach skips the delete.
AfterCleanupDetach(ok) ==
    IF ok THEN "cleanup_delete_igw" ELSE "cleanup_delete_vpc"

\* Variant: the except block raises the last cleanup failure, if any.
ReRaisedLastFailure(p) ==
    LET failed == SelectSeq(log[p], LAMBDA e : ~e.ok /\ e.call # "create_subnet")
    IN IF Len(failed) > 0
       THEN ClientError(failed[Len(failed)].call, failed[Len(failed)].target,
                        "InternalError")
       ELSE exc[p]

\* The bare raise that ends the except block of the subnet loop re-raises
\* the exception being handled.
ReRaised(p) == exc[p]

\* Variant: the except block has no raise; the function goes on to return
\* a record of the subnets it did create.
AfterCleanupNoRaise(p) ==
    /\ record' = [record EXCEPT ![p] = <<BuildRecord(p, created_subnets[p])>>]
    /\ pc' = [pc EXCEPT ![p] = "save"]
    /\ UNCHANGED <<raised, response>>

\* _cleanup_on_error has returned: the except block ends with raise, and
\* create_vpc_with_subnets returns no record.
AfterCleanup(p) ==
    /\ Propagate(p, ReRaised(p))
    /\ UNCHANGED record

\* Variant: the loop has no try block of its own, so the first failed
\* delete ends it.
AfterCleanupDeleteSubnetStops(ok, more) ==
    IF ok /\ more THEN "cleanup_subnets" ELSE "cleanup_detach"

\* Where the subnet loop of _cleanup_on_error goes after ec2.delete_subnet:
\* the except block only logs, so the loop goes on while ids remain.
AfterCleanupDeleteSubnet(ok, more) ==
    IF more THEN "cleanup_subnets" ELSE "cleanup_detach"

\* one iteration of: for subnet_id in subnet_ids: ec2.delete_subnet
CleanupDeleteSubnet(p) ==
    /\ pc[p] = "cleanup_subnets"
    /\ LET subnet_ids == CleanupOrder(SubnetIds(created_subnets[p]))
           subnet_id == subnet_ids[idx[p] + 1]
       IN \E ok \in BOOLEAN :
             /\ live' = IF ok THEN live \ {subnet_id} ELSE live
             /\ LogCall(p, "delete_subnet", subnet_id, ok)
             /\ idx' = [idx EXCEPT ![p] = @ + 1]
             /\ pc' = [pc EXCEPT ![p] =
                    AfterCleanupDeleteSubnet(ok, idx[p] + 1 < Len(subnet_ids))]
    /\ UNCHANGED <<reqVars, vpc_id, igw_id, created_subnets, exc, record, outVars, nextVpc, quota, repoVars>>
    /\ UNCHANGED <<tableVars, authVars>>

\* ec2.detach_internet_gateway
CleanupDetach(p) ==
    /\ pc[p] = "cleanup_detach"
    /\ \E ok \in BOOLEAN :
          /\ LogCall(p, "detach_internet_gateway", igw_id[p], ok)
          /\ pc' = [pc EXCEPT ![p] = AfterCleanupDetach(ok)]
    /\ UNCHANGED <<reqVars, localVars, outVars, provVars, repoVars>>
    /\ UNCHANGED <<tableVars, authVars>>

\* ec2.delete_internet_gateway
CleanupDeleteIgw(p) ==
    /\ pc[p] = "cleanup_delete_igw"
    /\ \/ /\ live' = live \ {igw_id[p]}
          /\ LogCall(p, "delete_internet_gateway", igw_id[p], TRUE)
       \/ /\ LogCall(p, "delete_internet_gateway", igw_id[p], FALSE)
          /\ UNCHANGED live
    /\ pc' = [pc EXCEPT ![p] = "cleanup_delete_vpc"]
    /\ UNCHANGED <<reqVars, localVars, outVars, nextVpc, quota, repoVars>>
    /\ UNCHANGED <<tableVars, authVars>>

\* Variant: the network id is kept in a module-level variable that every run
\* overwrites, so the cleanup names the network created last.
CleanupVpcIdLatest(p) == VpcIdOf(nextVpc - 1)

\* The vpc_id argument of _cleanup_on_error: the local of the run that
\* calls it.
CleanupVpcId(p) == vpc_id[p]

\* ec2.delete_vpc, the return of _cleanup_on_error, and the bare raise of the
\* except block that called it.
CleanupDeleteVpc(p) ==
    /\ pc[p] = "cleanup_delete_vpc"
    /\ \/ /\ live' = live \ {CleanupVpcId(p)}
          /\ LogCall(p, "delete_vpc", CleanupVpcId(p), TRUE)
       \/ /\ LogCall(p, "delete_vpc", CleanupVpcId(p), FALSE)
          /\ UNCHANGED live
    /\ AfterCleanup(p)
    /\ UNCHANGED <<reqVars, vpc_id, igw_id, created_subnets, idx, exc, saved,
                   nextVpc, quota, repoVars>>
    /\ UNCHANGED <<tableVars, authVars>>

\* schemas.SubnetDetail / schemas.VPCResponse built from a stored record
\* (VPCResponse(**record)); tags and created_at are left out as in the record.
SubnetDetail(sn) ==
    [subnet_id |-> sn.subnet_id,
     cidr |-> sn.cidr,
     availability_zone |-> sn.availability_zone,
     name |-> sn.name]

\* Variant: the response model has no subnets field filled in.
VPCResponseWithoutSubnets(item) ==
    [vpc_id |-> item.vpc_id,
     vpc_name |-> item.vpc_name,
     vpc_cidr |-> item.vpc_cidr,
     igw_id |-> item.igw_id,
     region |-> item.region,
     subnets |-> <<>>,
     created_by |-> item.created_by,
     status |-> item.status]

VPCResponse(item) ==
    [vpc_id |-> item.vpc_id,
     vpc_name |-> item.vpc_name,
     vpc_cidr |-> item.vpc_cidr,
     igw_id |-> item.igw_id,
     region |-> item.region,
     subnets |-> [i \in 1..Len(item.subnets) |-> SubnetDetail(item.subnets[i])],
     created_by |-> item.created_by,
     status |-> item.status]

\* Variant: provision_vpc wraps repo.save and starts deleting the network
\* when it fails.
SaveFailedCleansUp(p, e) ==
    /\ pc' = [pc EXCEPT ![p] = "cleanup_delete_vpc"]
    /\ UNCHANGED response

\* repo.save raised: provision_vpc has no try block, so the error leaves it
\* and the except Exception of create_vpc answers 502 with it.
SaveFailed(p, e) == CreateFailed(p, e)

\* ------------------------------------------------------------ provision_vpc
\* record = create_vpc_with_subnets(...) returned; repo.save(record);
\* return VPCResponse(**record).
Save(p) ==
    /\ pc[p] = "save"
    /\ saved' = [saved EXCEPT ![p] = TRUE]
    /\ LET rec == record[p][1]
       IN \/ /\ store' = RepoSave(store, rec)
             /\ known' = Upsert(known, rec.vpc_id, rec)
             /\ gone' = gone \ {rec.vpc_id}
             /\ response' = [response EXCEPT ![p] =
                    [status |-> HTTP_201_CREATED, body |-> <<VPCResponse(rec)>>,
                     detail |-> NoErr]]
             /\ pc' = [pc EXCEPT ![p] = "done"]
          \/ /\ \E code \in ErrorCodes :
                   SaveFailed(p, ClientError("put_item", vpc_id[p], code))
             /\ UNCHANGED repoVars
    /\ UNCHANGED <<reqVars, localVars, log, raised, provVars>>
    /\ UNCHANGED <<tableVars, authVars>>

\* ----------------------------------------- DELETE /vpc/{vpc_id} (delete_vpc)
\* The ids a caller may name: those the provider has handed out, and one
\* it never did.
UnknownVpc == VpcIdOf(0)
KnownVpcs == {VpcIdOf(n) : n \in 1..(nextVpc - 1)}

\* Variant: the except block has no DependencyViolation branch.
DeleteErrorStatusGeneric(code) == HTTP_502_BAD_GATEWAY

\* delete_vpc's except ClientError: the status the error code maps to.
DeleteErrorStatus(code) ==
    IF code = "DependencyViolation" THEN HTTP_409_CONFLICT ELSE HTTP_502_BAD_GATEWAY

\* Variant: the route does not look at what remove_vpc_record returned.
DeleteStatusIgnoresResult(deleted) == HTTP_204_NO_CONTENT

\* delete_vpc: if not deleted: raise HTTPException(404); else 204.
DeleteStatus(deleted) ==
    IF deleted THEN HTTP_204_NO_CONTENT ELSE HTTP_404_NOT_FOUND

BeginDelete(p, id) ==
    /\ pc[p] = "idle"
    /\ Authenticated(p)
    /\ pc' = [pc EXCEPT ![p] = "repo_delete"]
    /\ op' = [op EXCEPT ![p] = "delete"]
    /\ store0' = [store0 EXCEPT ![p] = store]
    /\ arg' = [arg EXCEPT ![p] = [NoArg EXCEPT !.vpc_id = id]]
    /\ UNCHANGED <<req, localVars, log, outVars, provVars, repoVars>>
    /\ UNCHANGED <<tableVars, authVars>>

\* Variant: the repository looks the item up when the request starts and
\* deletes it later, reporting what the lookup found.
ExistedWhenLookedUp(p, id) == id \in DOMAIN store0[p]

\* bool(response.get("Attributes")) of delete_item with ReturnValues
\* "ALL_OLD": whether the item was there at the moment it was deleted.
Existed(p, id) == id \in DOMAIN store

\* deleted = remove_vpc_record(vpc_id, repo), which is repo.delete(vpc_id);
\* 404 when nothing was deleted, 409 / 502 on a ClientError, else 204.
\* The route makes no provider call.
RemoveVpcRecord(p) ==
    /\ pc[p] = "repo_delete"
    /\ LET id == arg[p].vpc_id
           existed == Existed(p, id)
       IN \/ /\ store' = RepoDelete(store, id)
             /\ known' = IF DeleteStatus(existed) = HTTP_204_NO_CONTENT
                         THEN Without(known, id) ELSE known
             /\ gone' = IF DeleteStatus(existed) = HTTP_204_NO_CONTENT
                      THEN gone \cup {id} ELSE gone
             /\ response' = [response EXCEPT ![p] =
                    [status |-> DeleteStatus(existed),
                     body |-> <<>>, detail |-> NoErr]]
          \/ /\ \E code \in ErrorCodes :
                   response' = [response EXCEPT ![p] =
                       [status |-> DeleteErrorStatus(code), body |-> <<>>,
                        detail |-> ClientError("delete_item", id, code)]]
             /\ UNCHANGED repoVars
    /\ pc' = [pc EXCEPT ![p] = "done"]
    /\ UNCHANGED <<reqVars, localVars, log, raised, saved, provVars>>
    /\ UNCHANGED <<tableVars, authVars>>

\* -------------------------------------------- GET /vpc/{vpc_id} (get_vpc)
\* A ClientError from the repository that no route handler catches (get_vpc
\* and list_vpcs have no try block): the framework answers 500.
Unhandled(p, e) ==
    /\ raised' = [raised EXCEPT ![p] = e]
    /\ response' = [response EXCEPT ![p] =
            [status |-> 500, body |-> <<>>, detail |-> e]]

\* repo.get: response.get("Item"), None when the key is not in the table.
RepoGet(s, id) == IF id \in DOMAIN s THEN Some(s[id]) ELSE PyNone

\* Variant: fetch_vpc hands back an empty response for a missing record
\* instead of None, so the route never answers 404.
GetAnswerNeverAbsent(found) ==
    IF found = PyNone
    THEN [status |-> HTTP_200_OK, body |-> <<>>, detail |-> NoErr]
    ELSE [status |-> HTTP_200_OK, body |-> <<VPCResponse(found[1])>>, detail |-> NoErr]

\* fetch_vpc and get_vpc: None becomes 404, a record becomes its VPCResponse.
GetAnswer(found) ==
    IF found = PyNone
    THEN [status |-> HTTP_404_NOT_FOUND, body |-> <<>>, detail |-> NoErr]
    ELSE [status |-> HTTP_200_OK, body |-> <<VPCResponse(found[1])>>, detail |-> NoErr]

BeginGet(p, id) ==
    /\ pc[p] = "idle"
    /\ Authenticated(p)
    /\ pc' = [pc EXCEPT ![p] = "repo_get"]
    /\ op' = [op EXCEPT ![p] = "get"]
    /\ store0' = [store0 EXCEPT ![p] = store]
    /\ arg' = [arg EXCEPT ![p] = [NoArg EXCEPT !.vpc_id = id]]
    /\ UNCHANGED <<req, localVars, log, outVars, provVars, repoVars>>
    /\ UNCHANGED <<tableVars, authVars>>

\* record = fetch_vpc(vpc_id, repo), which is repo.get(vpc_id).
FetchVpc(p) ==
    /\ pc[p] = "repo_get"
    /\ \/ /\ response' = [response EXCEPT ![p] = GetAnswer(RepoGet(store, arg[p].vpc_id))]
          /\ UNCHANGED raised
       \/ \E code \in ErrorCodes :
             Unhandled(p, ClientError("get_item", arg[p].vpc_id, code))
    /\ pc' = [pc EXCEPT ![p] = "done"]
    /\ UNCHANGED <<reqVars, localVars, log, saved, provVars, repoVars>>
    /\ UNCHANGED <<tableVars, authVars>>

\* ------------------------------------------------------ GET /vpc (list_vpcs)
\* The orders in which a scan may return the items with keys S.
Orders(S) ==
    { f \in [1..Cardinality(S) -> S] :
         \A i, j \in 1..Cardinality(S) : i # j => f[i] # f[j] }

\* How many items one scan page may hold.
PageLimits == {1, 2}

\* table.scan(ExclusiveStartKey=start): up to limit items after position
\* start, with LastEvaluatedKey when items remain after the page.
ScanPage(items, start, limit) ==
    LET last == IF start + limit < Len(items) THEN start + limit ELSE Len(items)
    IN [Items |-> SubSeq(items, start + 1, last),
        LastEvaluatedKey |-> IF last < Len(items) THEN <<last>> ELSE <<>>]

\* while "LastEvaluatedKey" in response: scan again and extend items.
RECURSIVE ScanRest(_, _, _)
ScanRest(items, page, limit) ==
    IF page.LastEvaluatedKey # <<>>
    THEN LET next == ScanPage(items, page.LastEvaluatedKey[1], limit)
         IN next.Items \o ScanRest(items, next, limit)
    ELSE <<>>

\* Variant: list_all returns the first page of the scan only.
RepoListAllFirstPage(s, order, limit) ==
    ScanPage([i \in 1..Len(order) |-> s[order[i]]], 0, limit).Items

\* repo.list_all: the table's items in scan order, page by page.
RepoListAll(s, order, limit) ==
    LET items == [i \in 1..Len(order) |-> s[order[i]]]
        first == ScanPage(items, 0, limit)
    IN first.Items \o ScanRest(items, first, limit)

\* fetch_all_vpcs: [VPCResponse(**r) for r in repo.list_all()]
FetchAll(items) == [i \in 1..Len(items) |-> VPCResponse(items[i])]

\* VPCListResponse(count=len(vpcs), vpcs=vpcs)
VPCListResponse(vpcs) == [count |-> Len(vpcs), vpcs |-> vpcs]

BeginList(p) ==
    /\ pc[p] = "idle"
    /\ Authenticated(p)
    /\ pc' = [pc EXCEPT ![p] = "repo_scan"]
    /\ op' = [op EXCEPT ![p] = "list"]
    /\ store0' = [store0 EXCEPT ![p] = store]
    /\ UNCHANGED <<req, arg, localVars, log, outVars, provVars, repoVars>>
    /\ UNCHANGED <<tableVars, authVars>>

\* vpcs = fetch_all_vpcs(repo)
FetchAllVpcs(p) ==
    /\ pc[p] = "repo_scan"
    /\ \/ /\ \E order \in Orders(DOMAIN store), limit \in PageLimits :
                response' = [response EXCEPT ![p] =
                    [status |-> HTTP_200_OK,
                     body |-> <<VPCListResponse(FetchAll(RepoListAll(store, order, limit)))>>,
                     detail |-> NoErr]]
          /\ UNCHANGED raised
       \/ \E code \in ErrorCodes :
             Unhandled(p, ClientError("scan", NoId, code))
    /\ pc' = [pc EXCEPT ![p] = "done"]
    /\ UNCHANGED <<reqVars, localVars, log, saved, provVars, repoVars>>
    /\ UNCHANGED <<tableVars, authVars>>

\* ---------------------------------------------------- delete_vpc_resources
\* delete_vpc_resources(vpc_id, subnet_ids, igw_id) has no caller in the
\* routes or the service layer; it is modelled as called directly, for a
\* stored record: with the record's subnet ids or none, and its gateway id
\* or none.
TeardownArgs ==
    { [vpc_id |-> v,
       subnet_ids |-> IF n THEN SubnetIds(store[v].subnets) ELSE <<>>,
       igw_id |-> IF g THEN store[v].igw_id ELSE NoId] :
         v \in DOMAIN store, n \in BOOLEAN, g \in BOOLEAN }

\* Where teardown goes once the subnet loop is over: if igw_id: ...
AfterTeardownSubnets(a) ==
    IF a.igw_id # NoId THEN "td_detach" ELSE "td_delete_vpc"

\* The raise in an except block of delete_vpc_resources: the function ends
\* with that error.
TeardownRaise(p, e) ==
    /\ raised' = [raised EXCEPT ![p] = e]
    /\ pc' = [pc EXCEPT ![p] = "done"]

\* Variant: a failed step is logged and the teardown goes on to the network.
TeardownContinue(p, e) ==
    /\ pc' = [pc EXCEPT ![p] = "td_delete_vpc"]
    /\ UNCHANGED raised

\* A failed subnet delete, gateway detach or gateway delete: logged, then
\* raise.
TeardownFatal(p, e) == TeardownRaise(p, e)

BeginTeardown(p, a) ==
    /\ pc[p] = "idle"
    /\ pc' = [pc EXCEPT ![p] =
           IF Len(TeardownOrder(a.subnet_ids)) > 0 THEN "td_subnets"
           ELSE AfterTeardownSubnets(a)]
    /\ op' = [op EXCEPT ![p] = "teardown"]
    /\ store0' = [store0 EXCEPT ![p] = store]
    /\ arg' = [arg EXCEPT ![p] = a]
    /\ UNCHANGED <<req, localVars, log, outVars, provVars, repoVars>>
    /\ UNCHANGED <<tableVars, authVars>>

\* 1. one iteration of: for subnet_id in subnet_ids or []: ec2.delete_subnet
TeardownDeleteSubnet(p) ==
    /\ pc[p] = "td_subnets"
    /\ LET subnet_ids == TeardownOrder(arg[p].subnet_ids)
           subnet_id == subnet_ids[idx[p] + 1]
       IN \/ /\ live' = live \ {subnet_id}
             /\ LogCall(p, "delete_subnet", subnet_id, TRUE)
             /\ idx' = [idx EXCEPT ![p] = @ + 1]
             /\ pc' = [pc EXCEPT ![p] =
                    IF idx[p] + 1 < Len(subnet_ids) THEN "td_subnets"
                    ELSE AfterTeardownSubnets(arg[p])]
             /\ UNCHANGED raised
          \/ /\ \E code \in ErrorCodes :
                   TeardownFatal(p, ClientError("delete_subnet", subnet_id, code))
             /\ LogCall(p, "delete_subnet", subnet_id, FALSE)
             /\ UNCHANGED <<live, idx>>
    /\ UNCHANGED <<reqVars, vpc_id, igw_id, created_subnets, exc, record,
                   saved, response, nextVpc, quota, repoVars>>
    /\ UNCHANGED <<tableVars, authVars>>

\* 2. ec2.detach_internet_gateway
TeardownDetach(p) ==
    /\ pc[p] = "td_detach"
    /\ \/ /\ LogCall(p, "detach_internet_gateway", arg[p].igw_id, TRUE)
          /\ pc' = [pc EXCEPT ![p] = "td_delete_igw"]
          /\ UNCHANGED raised
       \/ /\ \E code \in ErrorCodes :
                TeardownFatal(p, ClientError("detach_internet_gateway", arg[p].igw_id, code))
          /\ LogCall(p, "detach_internet_gateway", arg[p].igw_id, FALSE)
    /\ UNCHANGED <<reqVars, localVars, saved, response, provVars, repoVars>>
    /\ UNCHANGED <<tableVars, authVars>>

\* ec2.delete_internet_gateway
TeardownDeleteIgw(p) ==
    /\ pc[p] = "td_delete_igw"
    /\ \/ /\ live' = live \ {arg[p].igw_id}
          /\ LogCall(p, "delete_internet_gateway", arg[p].igw_id, TRUE)
          /\ pc' = [pc EXCEPT ![p] = "td_delete_vpc"]
          /\ UNCHANGED raised
       \/ /\ \E code \in ErrorCodes :
                TeardownFatal(p, ClientError("delete_internet_gateway", arg[p].igw_id, code))
          /\ LogCall(p, "delete_internet_gateway", arg[p].igw_id, FALSE)
          /\ UNCHANGED live
    /\ UNCHANGED <<reqVars, localVars, saved, response, nextVpc, quota, repoVars>>
    /\ UNCHANGED <<tableVars, authVars>>

\* 3. ec2.delete_vpc; on ClientError the except block starts the sweep.
TeardownDeleteVpc(p) ==
    /\ pc[p] = "td_delete_vpc"
    /\ \/ /\ live' = live \ {arg[p].vpc_id}
          /\ LogCall(p, "delete_vpc", arg[p].vpc_id, TRUE)
          /\ pc' = [pc EXCEPT ![p] = "done"]
          /\ UNCHANGED exc
       \/ /\ \E code \in ErrorCodes :
                exc' = [exc EXCEPT ![p] = ClientError("delete_vpc", arg[p].vpc_id, code)]
          /\ LogCall(p, "delete_vpc", arg[p].vpc_id, FALSE)
          /\ pc' = [pc EXCEPT ![p] = "td_describe_enis"]
          /\ UNCHANGED live
    /\ UNCHANGED <<reqVars, vpc_id, igw_id, created_subnets, idx, record,
                   outVars, nextVpc, quota, repoVars>>
    /\ UNCHANGED <<tableVars, authVars>>

\* Variant: the describe call is not wrapped; its ClientError leaves the
\* function.
SweepCallUnwrapped(p, at, call, next) ==
    /\ pc[p] = at
    /\ \/ /\ LogCall(p, call, arg[p].vpc_id, TRUE)
          /\ pc' = [pc EXCEPT ![p] = next]
          /\ UNCHANGED raised
       \/ /\ LogCall(p, call, arg[p].vpc_id, FALSE)
          /\ TeardownRaise(p, ClientError(call, arg[p].vpc_id, "InternalError"))
    /\ UNCHANGED <<reqVars, localVars, saved, response, provVars, repoVars>>
    /\ UNCHANGED <<tableVars, authVars>>

\* A describe call of the sweep, in its own try block: its ClientError is
\* logged and the sweep goes on.
SweepCall(p, at, call, next) ==
    /\ pc[p] = at
    /\ \E ok \in BOOLEAN : LogCall(p, call, arg[p].vpc_id, ok)
    /\ pc' = [pc EXCEPT ![p] = next]
    /\ UNCHANGED <<reqVars, localVars, outVars, provVars, repoVars>>
    /\ UNCHANGED <<tableVars, authVars>>

DescribeNetworkInterfaces(p) ==
    SweepCall(p, "td_describe_enis", "describe_network_interfaces", "td_describe_rts")

DescribeRouteTables(p) ==
    SweepCall(p, "td_describe_rts", "describe_route_tables", "td_describe_eps")

\* ec2.describe_vpc_endpoints, then the bare raise that ends the except
\* block of delete_vpc.
DescribeVpcEndpoints(p) ==
    /\ pc[p] = "td_describe_eps"
    /\ \E ok \in BOOLEAN : LogCall(p, "describe_vpc_endpoints", arg[p].vpc_id, ok)
    /\ TeardownRaise(p, exc[p])
    /\ UNCHANGED <<reqVars, localVars, saved, response, provVars, repoVars>>
    /\ UNCHANGED <<tableVars, authVars>>

\* ------------------------------------------------------------------ worker
\* The request is answered; the worker is free for the next one.
Return(p) ==
    /\ pc[p] = "done"
    /\ pc' = [pc EXCEPT ![p] = "idle"]
    /\ op' = [op EXCEPT ![p] = ""]
    /\ store0' = [store0 EXCEPT ![p] = << >>]
    /\ req' = [req EXCEPT ![p] = NoRequest]
    /\ arg' = [arg EXCEPT ![p] = NoArg]
    /\ vpc_id' = [vpc_id EXCEPT ![p] = NoId]
    /\ igw_id' = [igw_id EXCEPT ![p] = NoId]
    /\ created_subnets' = [created_subnets EXCEPT ![p] = <<>>]
    /\ idx' = [idx EXCEPT ![p] = 0]
    /\ exc' = [exc EXCEPT ![p] = NoErr]
    /\ record' = [record EXCEPT ![p] = <<>>]
    /\ log' = [log EXCEPT ![p] = <<>>]
    /\ raised' = [raised EXCEPT ![p] = NoErr]
    /\ saved' = [saved EXCEPT ![p] = FALSE]
    /\ response' = [response EXCEPT ![p] = NoResponse]
    /\ form' = [form EXCEPT ![p] = NoForm]
    /\ UNCHANGED <<provVars, repoVars, token>>
    /\ UNCHANGED tableVars

\* What the routes do.
Step(p) ==
    \/ \E r \in CreateRequests : BeginCreate(p, r)
    \/ CreateVpc(p)
    \/ EnableDnsHostnames(p)
    \/ EnableDnsSupport(p)
    \/ CreateInternetGateway(p)
    \/ AttachInternetGateway(p)
    \/ CreateSubnet(p)
    \/ CleanupDeleteSubnet(p)
    \/ CleanupDetach(p)
    \/ CleanupDeleteIgw(p)
    \/ CleanupDeleteVpc(p)
    \/ Save(p)
    \/ \E id \in KnownVpcs \cup {UnknownVpc} : BeginDelete(p, id)
    \/ RemoveVpcRecord(p)
    \/ Return(p)

Next == \E p \in Workers : Step(p)

Spec == Init /\ [][Next]_vars

\* ------------------------------------- delete_vpc_resources, called directly
\* The state Spec reaches when the first creation request, for MaxSubnets
\* subnets, succeeded and was answered: its record is stored and its
\* network, gateway and subnets exist.
InitTeardown ==
    LET r == [vpc_cidr |-> "10.0.0.0/16", vpc_name |-> "my-vpc",
              subnets |-> RequestSubnets(MaxSubnets)]
        vpc == VpcIdOf(1)
        item == MakeRecord(vpc, IgwIdFor(vpc), r, CreatedSubnets(vpc, r))
    IN /\ TableCached
       /\ SignedIn
       /\ store = RepoSave(<< >>, item)
       /\ live = {vpc, IgwIdFor(vpc)} \cup Range(SubnetIds(item.subnets))
       /\ nextVpc = 2
       /\ quota = 1
       /\ pc = [p \in Procs |-> "idle"]
       /\ op = [p \in Procs |-> ""]
       /\ store0 = [p \in Procs |-> << >>]
       /\ req = [p \in Procs |-> NoRequest]
       /\ arg = [p \in Procs |-> NoArg]
       /\ vpc_id = [p \in Procs |-> NoId]
       /\ igw_id = [p \in Procs |-> NoId]
       /\ created_subnets = [p \in Procs |-> <<>>]
       /\ idx = [p \in Procs |-> 0]
       /\ exc = [p \in Procs |-> NoErr]
       /\ record = [p \in Procs |-> <<>>]
       /\ log = [p \in Procs |-> <<>>]
       /\ raised = [p \in Procs |-> NoErr]
       /\ saved = [p \in Procs |-> FALSE]
       /\ response = [p \in Procs |-> NoResponse]
       /\ known = store
       /\ gone = {}

TeardownStep(p) ==
    \/ \E a \in TeardownArgs : BeginTeardown(p, a)
    \/ TeardownDeleteSubnet(p)
    \/ TeardownDetach(p)
    \/ TeardownDeleteIgw(p)
    \/ TeardownDeleteVpc(p)
    \/ DescribeNetworkInterfaces(p)
    \/ DescribeRouteTables(p)
    \/ DescribeVpcEndpoints(p)
    \/ Return(p)

NextTeardown == \E p \in Workers : TeardownStep(p)

SpecTeardown == InitTeardown /\ [][NextTeardown]_vars

\* ----------------------------------------------- the four routes of /vpc
\* All four routes, with request bodies that pass and that fail validation,
\* and a provider that lets the account create MaxRecords networks.
InitApi ==
    /\ TableCached
    /\ SignedIn
    /\ store = << >>
    /\ live = {}
    /\ nextVpc = 1
    /\ quota = MaxRecords
    /\ pc = [p \in Procs |-> "idle"]
    /\ op = [p \in Procs |-> ""]
    /\ store0 = [p \in Procs |-> << >>]
    /\ req = [p \in Procs |-> NoRequest]
    /\ arg = [p \in Procs |-> NoArg]
    /\ vpc_id = [p \in Procs |-> NoId]
    /\ igw_id = [p \in Procs |-> NoId]
    /\ created_subnets = [p \in Procs |-> <<>>]
    /\ idx = [p \in Procs |-> 0]
    /\ exc = [p \in Procs |-> NoErr]
    /\ record = [p \in Procs |-> <<>>]
    /\ log = [p \in Procs |-> <<>>]
    /\ raised = [p \in Procs |-> NoErr]
    /\ saved = [p \in Procs |-> FALSE]
    /\ response = [p \in Procs |-> NoResponse]
    /\ known = << >>
    /\ gone = {}

ApiStep(p) ==
    \/ \E r \in ApiRequests : RejectCreate(p, r)
    \/ \E r \in ApiRequests : BeginCreate(p, r)
    \/ CreateVpc(p)
    \/ EnableDnsHostnames(p)
    \/ EnableDnsSupport(p)
    \/ CreateInternetGateway(p)
    \/ AttachInternetGateway(p)
    \/ CreateSubnet(p)
    \/ CleanupDeleteSubnet(p)
    \/ CleanupDetach(p)
    \/ CleanupDeleteIgw(p)
    \/ CleanupDeleteVpc(p)
    \/ Save(p)
    \/ \E id \in KnownVpcs \cup {UnknownVpc} : BeginGet(p, id)
    \/ FetchVpc(p)
    \/ BeginList(p)
    \/ FetchAllVpcs(p)
    \/ \E id \in KnownVpcs \cup {UnknownVpc} : BeginDelete(p, id)
    \/ RemoveVpcRecord(p)
    \/ Return(p)

NextApi == \E p \in Workers : ApiStep(p)

SpecApi == InitApi /\ [][NextApi]_vars

\* --------------------------------------------- delete requests in parallel
\* Two threads of the server's pool serve delete requests at the same time,
\* for the stored id or for one never stored; nothing is saved meanwhile.
Deleters == {1, 2}

DeletesStep(p) ==
    \/ \E id \in KnownVpcs \cup {UnknownVpc} : BeginDelete(p, id)
    \/ RemoveVpcRecord(p)
    \/ Return(p)

NextDeletes == \E p \in Deleters : DeletesStep(p)

SpecDeletes == InitTeardown /\ [][NextDeletes]_vars

\* --------------------------------- creation and teardown runs, to their end
\* A call of a run in progress: a provider call of create_vpc_with_subnets,
\* of _cleanup_on_error or of delete_vpc_resources, or the repo.save that
\* follows a creation.
RunCall(p) ==
    \/ CreateVpc(p)
    \/ EnableDnsHostnames(p)
    \/ EnableDnsSupport(p)
    \/ CreateInternetGateway(p)
    \/ AttachInternetGateway(p)
    \/ CreateSubnet(p)
    \/ CleanupDeleteSubnet(p)
    \/ CleanupDetach(p)
    \/ CleanupDeleteIgw(p)
    \/ CleanupDeleteVpc(p)
    \/ Save(p)
    \/ TeardownDeleteSubnet(p)
    \/ TeardownDetach(p)
    \/ TeardownDeleteIgw(p)
    \/ TeardownDeleteVpc(p)
    \/ DescribeNetworkInterfaces(p)
    \/ DescribeRouteTables(p)
    \/ DescribeVpcEndpoints(p)

\* One run per worker: a creation, or a teardown of what is stored.
RunsStep(p) ==
    \/ \E r \in CreateRequests : BeginCreate(p, r)
    \/ \E a \in TeardownArgs : BeginTeardown(p, a)
    \/ RunCall(p)

\* A first creation, for MaxSubnets subnets, succeeded and was answered: its
\* record is stored and its resources exist; the account may create one
\* more network.
InitRuns ==
    LET r == [vpc_cidr |-> "10.0.0.0/16", vpc_name |-> "my-vpc",
              subnets |-> RequestSubnets(MaxSubnets)]
        vpc == VpcIdOf(1)
        item == MakeRecord(vpc, IgwIdFor(vpc), r, CreatedSubnets(vpc, r))
    IN /\ TableCached
       /\ SignedIn
       /\ store = RepoSave(<< >>, item)
       /\ live = {vpc, IgwIdFor(vpc)} \cup Range(SubnetIds(item.subnets))
       /\ nextVpc = 2
       /\ quota = 2
       /\ pc = [p \in Procs |-> "idle"]
       /\ op = [p \in Procs |-> ""]
       /\ store0 = [p \in Procs |-> << >>]
       /\ req = [p \in Procs |-> NoRequest]
       /\ arg = [p \in Procs |-> NoArg]
       /\ vpc_id = [p \in Procs |-> NoId]
       /\ igw_id = [p \in Procs |-> NoId]
       /\ created_subnets = [p \in Procs |-> <<>>]
       /\ idx = [p \in Procs |-> 0]
       /\ exc = [p \in Procs |-> NoErr]
       /\ record = [p \in Procs |-> <<>>]
       /\ log = [p \in Procs |-> <<>>]
       /\ raised = [p \in Procs |-> NoErr]
       /\ saved = [p \in Procs |-> FALSE]
       /\ response = [p \in Procs |-> NoResponse]
       /\ known = store
       /\ gone = {}

NextRuns == \E p \in Workers : RunsStep(p)

\* Every call is synchronous and returns, with a result or a ClientError:
\* a run that has a next call makes it.
SpecRuns ==
    InitRuns /\ [][NextRuns]_vars /\ \A p \in Workers : WF_vars(RunCall(p))

\* ------------------------------------------- authentication and /auth/token
\* A request arrives at a free worker carrying the header t.
Receive(p, t) ==
    /\ pc[p] = "idle"
    /\ token' = [token EXCEPT ![p] = t]
    /\ UNCHANGED <<pc, reqVars, localVars, log, outVars, provVars, repoVars, form>>
    /\ UNCHANGED tableVars

\* What the HTTPException of oauth2_scheme or of get_current_user says.
UnauthorizedDetail(t) ==
    IF t = NoToken THEN "Not authenticated" ELSE "Invalid or expired token"

\* A /vpc route whose dependency raised: the framework answers 401 before
\* the body is validated and without calling the route function.
Unauthorized(p, name) ==
    /\ pc[p] = "idle"
    /\ ~Authenticated(p)
    /\ pc' = [pc EXCEPT ![p] = "done"]
    /\ op' = [op EXCEPT ![p] = name]
    /\ store0' = [store0 EXCEPT ![p] = store]
    /\ response' = [response EXCEPT ![p] =
            [status |-> HTTP_401_UNAUTHORIZED, body |-> <<>>,
             detail |-> [call |-> "get_current_user", target |-> NoId,
                         code |-> UnauthorizedDetail(token[p])]]]
    /\ UNCHANGED <<req, arg, localVars, log, raised, saved, provVars, repoVars>>
    /\ UNCHANGED <<tableVars, authVars>>

\* settings.get_demo_users() for the default demo_users.
DemoUsers == [admin |-> "secret", user1 |-> "password1"]

\* The username / password pairs submitted to /auth/token.
LoginForms ==
    [username : {"admin", "user1", "nobody"},
     password : {"secret", "password1", "bad", ""}]

\* authenticate_user: no default password is a bcrypt hash, so the stored
\* password is compared as plain text.
authenticate_user(username, password) ==
    IF username \notin DOMAIN DemoUsers \/ DemoUsers[username] = ""
    THEN FALSE
    ELSE DemoUsers[username] = password

\* The names the module app.config binds.
ConfigModuleNames == {"BaseSettings", "Settings", "settings"}

\* config.JWT_EXPIRE_MINUTES * 60: an attribute lookup on the module, which
\* raises AttributeError (None here) for a name the module does not bind.
ExpiresIn ==
    IF "JWT_EXPIRE_MINUTES" \in ConfigModuleNames
    THEN Some(jwt_expire_minutes * 60)
    ELSE PyNone

TokenResponse(access_token, expires_in) ==
    [access_token |-> access_token, token_type |-> "bearer",
     expires_in |-> expires_in]

\* login: 401 for a pair authenticate_user rejects; otherwise the token is
\* created and the TokenResponse is built, and the exception of line 48
\* reaches the framework, which answers 500.
LoginAnswer(f) ==
    IF ~authenticate_user(f.username, f.password)
    THEN [status |-> HTTP_401_UNAUTHORIZED, body |-> <<>>,
          detail |-> [call |-> "login", target |-> NoId,
                      code |-> "Incorrect username or password"]]
    ELSE LET access_token == create_access_token(f.username)
         IN IF ExpiresIn = PyNone
            THEN [status |-> 500, body |-> <<>>,
                  detail |-> [call |-> "login", target |-> NoId,
                              code |-> "AttributeError"]]
            ELSE [status |-> HTTP_200_OK,
                  body |-> <<TokenResponse(access_token, ExpiresIn[1])>>,
                  detail |-> NoErr]

\* POST /auth/token; the route has no dependency on get_current_user.
Login(p, f) ==
    /\ pc[p] = "idle"
    /\ pc' = [pc EXCEPT ![p] = "done"]
    /\ op' = [op EXCEPT ![p] = "login"]
    /\ store0' = [store0 EXCEPT ![p] = store]
    /\ form' = [form EXCEPT ![p] = f]
    /\ response' = [response EXCEPT ![p] = LoginAnswer(f)]
    /\ UNCHANGED <<req, arg, localVars, log, raised, saved, provVars, repoVars, token>>
    /\ UNCHANGED tableVars

VpcOperations == {"create", "list", "get", "delete"}

AuthStep(p) ==
    \/ \E t \in Tokens : Receive(p, t)
    \/ \E name \in VpcOperations : Unauthorized(p, name)
    \/ \E f \in LoginForms : Login(p, f)
    \/ ApiStep(p)

NextAuth == \E p \in Workers : AuthStep(p)

SpecAuth == InitApi /\ [][NextAuth]_vars

\* ------------------------------------------- creation requests in parallel
\* The sync routes run in the server's thread pool: two creation requests,
\* each served once by its own thread, every provider call and repository
\* call of one interleaved with those of the other.
Creators == {1, 2}

ConcurrentStep(p) ==
    \/ \E r \in {q \in ApiRequests : ValidRequest(q)} : BeginCreate(p, r)
    \/ CreateVpc(p)
    \/ EnableDnsHostnames(p)
    \/ EnableDnsSupport(p)
    \/ CreateInternetGateway(p)
    \/ AttachInternetGateway(p)
    \/ CreateSubnet(p)
    \/ CleanupDeleteSubnet(p)
    \/ CleanupDetach(p)
    \/ CleanupDeleteIgw(p)
    \/ CleanupDeleteVpc(p)
    \/ Save(p)

NextConcurrent == \E p \in Creators : ConcurrentStep(p)

SpecConcurrent == InitApi /\ [][NextConcurrent]_vars

\* ------------------------------------- the repository, called directly
\* Records handed to repo.save: for each of MaxRecords ids, what
\* create_vpc_with_subnets returns for a one-subnet and a two-subnet request.
RepoIds == {VpcIdOf(n) : n \in 1..MaxRecords}
RepoItems ==
    { RecordFor(n, r) :
        n \in 1..MaxRecords, r \in {q \in ApiRequests : ValidRequest(q)} }

\* What a repository method handed back, or the ClientError it raised.
Returned(p, value) ==
    /\ response' = [response EXCEPT ![p] =
            [status |-> 0, body |-> <<value>>, detail |-> NoErr]]
    /\ UNCHANGED raised

Raised(p, e) ==
    /\ response' = [response EXCEPT ![p] =
            [status |-> 0, body |-> <<>>, detail |-> e]]
    /\ raised' = [raised EXCEPT ![p] = e]

\* The request-local state of a direct repository call.
DirectCall(p, name, id) ==
    /\ pc[p] = "idle"
    /\ pc' = [pc EXCEPT ![p] = "done"]
    /\ op' = [op EXCEPT ![p] = name]
    /\ store0' = [store0 EXCEPT ![p] = store]
    /\ arg' = [arg EXCEPT ![p] = [NoArg EXCEPT !.vpc_id = id]]
    /\ UNCHANGED <<req, vpc_id, igw_id, created_subnets, idx, exc, log, provVars>>
    /\ UNCHANGED <<tableVars, authVars>>

\* repo.save(item)
DirectSave(p, item) ==
    /\ DirectCall(p, "repo.save", item.vpc_id)
    /\ record' = [record EXCEPT ![p] = <<item>>]
    /\ saved' = [saved EXCEPT ![p] = TRUE]
    /\ \/ /\ store' = RepoSave(store, item)
          /\ known' = Upsert(known, item.vpc_id, item)
          /\ gone' = gone \ {item.vpc_id}
          /\ Returned(p, PyNone)
       \/ /\ \E code \in ErrorCodes :
                Raised(p, ClientError("put_item", item.vpc_id, code))
          /\ UNCHANGED repoVars

\* repo.get(id)
DirectGet(p, id) ==
    /\ DirectCall(p, "repo.get", id)
    /\ \/ Returned(p, RepoGet(store, id))
       \/ \E code \in ErrorCodes : Raised(p, ClientError("get_item", id, code))
    /\ UNCHANGED <<record, saved, repoVars>>

\* repo.delete(id): existed = bool(response.get("Attributes"))
DirectDelete(p, id) ==
    /\ DirectCall(p, "repo.delete", id)
    /\ \/ /\ store' = RepoDelete(store, id)
          /\ known' = Without(known, id)
          /\ gone' = IF id \in DOMAIN known THEN gone \cup {id} ELSE gone
          /\ Returned(p, id \in DOMAIN store)
       \/ /\ \E code \in ErrorCodes :
                Raised(p, ClientError("delete_item", id, code))
          /\ UNCHANGED repoVars
    /\ UNCHANGED <<record, saved>>

\* repo.list_all()
DirectListAll(p) ==
    /\ DirectCall(p, "repo.list_all", NoId)
    /\ \/ \E order \in Orders(DOMAIN store), limit \in PageLimits :
             Returned(p, RepoListAll(store, order, limit))
       \/ \E code \in ErrorCodes : Raised(p, ClientError("scan", NoId, code))
    /\ UNCHANGED <<record, saved, repoVars>>

\* The repository methods called directly, next to the two routes that read
\* and delete by id.
RepoStep(p) ==
    \/ \E item \in RepoItems : DirectSave(p, item)
    \/ \E id \in RepoIds : DirectGet(p, id)
    \/ \E id \in RepoIds : DirectDelete(p, id)
    \/ DirectListAll(p)
    \/ \E id \in RepoIds : BeginGet(p, id)
    \/ FetchVpc(p)
    \/ \E id \in RepoIds : BeginDelete(p, id)
    \/ RemoveVpcRecord(p)
    \/ Return(p)

NextRepo == \E p \in Workers : RepoStep(p)

SpecRepo == InitApi /\ [][NextRepo]_vars

\* ------------------------------------------------- _get_table, by threads
\* The sync routes run in the server's thread pool and share the one
\* module-level repository (dependencies/dao.py); every repository method
\* starts with self._get_table().  Each thread of Procs makes up to MaxCalls
\* calls.  The table may or may not exist in the backend beforehand.
InitTable ==
    /\ self_table = 0
    /\ table_exists \in BOOLEAN
    /\ tpc = [t \in Procs |-> "idle"]
    /\ calls = [t \in Procs |-> 0]
    /\ ddb = [t \in Procs |-> 0]
    /\ table = [t \in Procs |-> 0]
    /\ inits = 0
    /\ aborted = 0
    /\ SignedIn
    /\ store = << >>
    /\ live = {}
    /\ nextVpc = 1
    /\ quota = MaxVpcs
    /\ pc = [p \in Procs |-> "idle"]
    /\ op = [p \in Procs |-> ""]
    /\ store0 = [p \in Procs |-> << >>]
    /\ req = [p \in Procs |-> NoRequest]
    /\ arg = [p \in Procs |-> NoArg]
    /\ vpc_id = [p \in Procs |-> NoId]
    /\ igw_id = [p \in Procs |-> NoId]
    /\ created_subnets = [p \in Procs |-> <<>>]
    /\ idx = [p \in Procs |-> 0]
    /\ exc = [p \in Procs |-> NoErr]
    /\ record = [p \in Procs |-> <<>>]
    /\ log = [p \in Procs |-> <<>>]
    /\ raised = [p \in Procs |-> NoErr]
    /\ saved = [p \in Procs |-> FALSE]
    /\ response = [p \in Procs |-> NoResponse]
    /\ known = << >>
    /\ gone = {}

routeVars == <<store, live, nextVpc, quota, pc, op, store0, req, arg, vpc_id,
               igw_id, created_subnets, idx, exc, record, log, raised, saved,
               response, known, gone, token, form>>

\* A repository method is entered: table = self._get_table()
CallGetTable(t) ==
    /\ tpc[t] = "idle"
    /\ calls[t] < MaxCalls
    /\ calls' = [calls EXCEPT ![t] = @ + 1]
    /\ tpc' = [tpc EXCEPT ![t] = "check"]
    /\ UNCHANGED <<self_table, table_exists, ddb, table, inits, aborted, routeVars>>

\* if self._table is not None: return self._table
CheckTable(t) ==
    /\ tpc[t] = "check"
    /\ IF self_table # 0
       THEN /\ tpc' = [tpc EXCEPT ![t] = "idle"]
            /\ table' = [table EXCEPT ![t] = self_table]
       ELSE /\ tpc' = [tpc EXCEPT ![t] = "build"]
            /\ UNCHANGED table
    /\ UNCHANGED <<self_table, table_exists, calls, ddb, inits, aborted, routeVars>>

\* ddb = self._build_resource()
BuildResource(t) ==
    /\ tpc[t] = "build"
    /\ inits' = inits + 1
    /\ ddb' = [ddb EXCEPT ![t] = inits + 1]
    /\ tpc' = [tpc EXCEPT ![t] = "create"]
    /\ UNCHANGED <<self_table, table_exists, calls, table, aborted, routeVars>>

\* table = ddb.create_table(...); table.wait_until_exists()
\* ResourceInUseException when the table exists; any other ClientError is
\* raised to the caller and leaves self._table unset.
CreateTable(t) ==
    /\ tpc[t] = "create"
    /\ \/ /\ ~table_exists
          /\ table_exists' = TRUE
          /\ table' = [table EXCEPT ![t] = ddb[t]]
          /\ tpc' = [tpc EXCEPT ![t] = "assign"]
          /\ UNCHANGED aborted
       \/ /\ table_exists
          /\ tpc' = [tpc EXCEPT ![t] = "reuse"]
          /\ UNCHANGED <<table_exists, table, aborted>>
       \/ /\ aborted' = aborted + 1
          /\ tpc' = [tpc EXCEPT ![t] = "idle"]
          /\ UNCHANGED <<table_exists, table>>
    /\ UNCHANGED <<self_table, calls, ddb, inits, routeVars>>

\* except ClientError, ResourceInUseException: table = ddb.Table(table_name)
ReuseTable(t) ==
    /\ tpc[t] = "reuse"
    /\ table' = [table EXCEPT ![t] = ddb[t]]
    /\ tpc' = [tpc EXCEPT ![t] = "assign"]
    /\ UNCHANGED <<self_table, table_exists, calls, ddb, inits, aborted, routeVars>>

\* self._table = table; return self._table
AssignTable(t) ==
    /\ tpc[t] = "assign"
    /\ self_table' = table[t]
    /\ tpc' = [tpc EXCEPT ![t] = "idle"]
    /\ UNCHANGED <<table_exists, calls, ddb, table, inits, aborted, routeVars>>

TableStep(t) ==
    \/ CallGetTable(t)
    \/ CheckTable(t)
    \/ BuildResource(t)
    \/ CreateTable(t)
    \/ ReuseTable(t)
    \/ AssignTable(t)

NextTable == \E t \in Procs : TableStep(t)

SpecTable == InitTable /\ [][NextTable]_vars


\* ================================================================== claims
Calls(p, call) == SelectSeq(log[p], LAMBDA e : e.call = call)
Targets(s) == [i \in 1..Len(s) |-> s[i].target]
Reverse(s) == [i \in 1..Len(s) |-> s[Len(s) + 1 - i]]
Failed(p, call) == \E i \in 1..Len(log[p]) : log[p][i].call = call /\ ~log[p][i].ok
CleanupCalls ==
    {"delete_subnet", "detach_internet_gateway", "delete_internet_gateway", "delete_vpc"}

\* A creation run whose create_subnet call failed, and whose cleanup is over.
SubnetFailed(p) == op[p] = "create" /\ Failed(p, "create_subnet")
CleanupOver(p) == pc[p] = "done" /\ SubnetFailed(p)

\* C1 as stated: after a failed create_subnet at position k, the delete_subnet
\* calls of the cleanup name the subnets created before it, once each, in
\* the order k-1, k-2, ..., 1.
C1_DeletesInReverseOrder ==
    \A p \in Procs :
        CleanupOver(p) =>
            Targets(Calls(p, "delete_subnet")) = Reverse(SubnetIds(created_subnets[p]))

\* C1 amended: after a failed create_subnet at position k, the delete_subnet
\* calls of the cleanup name the subnets created before it, once each, in
\* creation order 1, 2, ..., k-1.
C1_DeletesInCreationOrder ==
    \A p \in Procs :
        CleanupOver(p) =>
            Targets(Calls(p, "delete_subnet")) = SubnetIds(created_subnets[p])

C1_Witness ==
    \E p \in Procs : CleanupOver(p) /\ Len(Calls(p, "delete_subnet")) >= 2

\* Every subnet created by the run was issued a delete call, and the gateway
\* detach and the network delete were each attempted once.
CleanupAttempted(p) ==
    /\ \A i \in 1..Len(created_subnets[p]) :
          \E j \in 1..Len(log[p]) :
             /\ log[p][j].call = "delete_subnet"
             /\ log[p][j].target = created_subnets[p][i].subnet_id
    /\ Len(Calls(p, "detach_internet_gateway")) = 1
    /\ Len(Calls(p, "delete_vpc")) = 1

\* C2 as stated: whatever cleanup calls fail, every cleanup call is attempted:
\* each subnet delete, the gateway detach, the gateway delete (also after a
\* failed detach) and the network delete.
C2_EveryCleanupCallAttempted ==
    \A p \in Procs :
        CleanupOver(p) =>
            /\ CleanupAttempted(p)
            /\ Len(Calls(p, "delete_internet_gateway")) = 1

\* C2 amended: whatever cleanup calls fail, each subnet delete, the gateway
\* detach and the network delete are attempted; the gateway delete is
\* attempted exactly when the detach succeeded.
C2_CleanupBestEffort ==
    \A p \in Procs :
        CleanupOver(p) =>
            /\ CleanupAttempted(p)
            /\ Len(Calls(p, "delete_internet_gateway")) =
                   IF Failed(p, "detach_internet_gateway") THEN 0 ELSE 1

C2_Witness ==
    \E p \in Procs :
        /\ CleanupOver(p)
        /\ Len(log[p]) >= 2
        /\ Failed(p, "delete_subnet")
        /\ Failed(p, "detach_internet_gateway")
        /\ log[p][Len(log[p])].call = "delete_vpc"

\* C3: after a failed create_subnet at position k, the error that
\* create_vpc_with_subnets raises is the error of that create_subnet call,
\* whichever cleanup calls failed.
C3_OriginalErrorRaised ==
    \A p \in Procs :
        CleanupOver(p) =>
            LET k == Len(created_subnets[p]) + 1
            IN /\ raised[p].call = "create_subnet"
               /\ raised[p].target = CidrArg(req[p].subnets[k])
               /\ raised[p] = exc[p]

C3_Witness ==
    \E p \in Procs :
        /\ CleanupOver(p)
        /\ Failed(p, "delete_subnet")
        /\ Failed(p, "delete_vpc")
        /\ raised[p].code = "DependencyViolation"

\* C4: a creation request one of whose provider calls failed never calls
\* repo.save, and the repository holds what it held when the request began.
C4_NoSaveAfterFailure ==
    \A p \in Procs :
        (op[p] = "create" /\ \E i \in 1..Len(log[p]) : ~log[p][i].ok) =>
            /\ ~saved[p]
            /\ store = store0[p]

C4_Witness ==
    \E p \in Procs :
        /\ op[p] = "create"
        /\ pc[p] = "done"
        /\ Failed(p, "create_subnet")
        /\ Len(created_subnets[p]) >= 1
        /\ store0[p] # << >>
        /\ response[p].status = HTTP_502_BAD_GATEWAY

\* C5: in the cleanup after a failed create_subnet, every subnet delete
\* precedes the gateway detach, the detach precedes the gateway delete, and
\* the network delete is the last provider call of the run and is made once.
C5_CleanupOrder ==
    \A p \in Procs :
        CleanupOver(p) =>
            LET n == Len(log[p])
            IN /\ n >= 1
               /\ log[p][n].call = "delete_vpc"
               /\ Len(Calls(p, "delete_vpc")) = 1
               /\ Len(Calls(p, "detach_internet_gateway")) = 1
               /\ \A i, j \in 1..n :
                     (/\ log[p][i].call = "delete_subnet"
                      /\ log[p][j].call = "detach_internet_gateway") => i < j
               /\ \A i, j \in 1..n :
                     (/\ log[p][i].call = "detach_internet_gateway"
                      /\ log[p][j].call = "delete_internet_gateway") => i < j

C5_Witness ==
    \E p \in Procs :
        /\ CleanupOver(p)
        /\ Len(Calls(p, "delete_subnet")) >= 2
        /\ Len(Calls(p, "delete_internet_gateway")) = 1

\* The provider-side network of a stored record still has dependents: one of
\* its subnets or its gateway exists.
HasDependents(item) ==
    \/ item.igw_id \in live
    \/ \E i \in 1..Len(item.subnets) : item.subnets[i].subnet_id \in live

\* A DELETE /vpc/{vpc_id} request for an id that had a stored record when the
\* request began, answered, the repository call itself not having failed.
DeleteOfStored(p) ==
    /\ op[p] = "delete"
    /\ pc[p] = "done"
    /\ arg[p].vpc_id \in DOMAIN store0[p]
    /\ response[p].detail = NoErr

\* C6: DELETE /vpc/{vpc_id} of a stored record whose provider-side network
\* still has dependents is answered 409, and the record is still stored.
C6_ConflictKeepsRecord ==
    \A p \in Procs :
        (DeleteOfStored(p) /\ HasDependents(store0[p][arg[p].vpc_id])) =>
            /\ response[p].status = HTTP_409_CONFLICT
            /\ arg[p].vpc_id \in DOMAIN store

\* C7: DELETE /vpc/{vpc_id} removes the stored record only after the provider
\* teardown for the record's resources ran and its network delete succeeded.
C7_TeardownBeforeRemoval ==
    \A p \in Procs :
        (/\ op[p] = "delete"
         /\ arg[p].vpc_id \in DOMAIN store0[p]
         /\ arg[p].vpc_id \notin DOMAIN store) =>
            \E i \in 1..Len(log[p]) :
                /\ log[p][i].call = "delete_vpc"
                /\ log[p][i].target = arg[p].vpc_id
                /\ log[p][i].ok

\* C8: in delete_vpc_resources a failed subnet delete, gateway detach or
\* gateway delete is the last provider call of the run, and its error is
\* what the function raises.
C8_TeardownFatalOnFirstFailure ==
    \A p \in Procs :
        op[p] = "teardown" =>
            \A i \in 1..Len(log[p]) :
                (/\ ~log[p][i].ok
                 /\ log[p][i].call \in
                        {"delete_subnet", "detach_internet_gateway",
                         "delete_internet_gateway"}) =>
                    /\ i = Len(log[p])
                    /\ pc[p] = "done"
                    /\ raised[p].call = log[p][i].call
                    /\ raised[p].target = log[p][i].target

C8_Witness ==
    \E p \in Procs :
        /\ op[p] = "teardown"
        /\ pc[p] = "done"
        /\ Len(log[p]) >= 2
        /\ log[p][Len(log[p])].call = "delete_subnet"
        /\ ~log[p][Len(log[p])].ok

\* C9: when the network delete of delete_vpc_resources fails, the three
\* describe calls of the sweep are all made, in order, whichever of them
\* fail, and the function raises the error of the network delete.
C9_SweepKeepsOriginalError ==
    \A p \in Procs :
        (op[p] = "teardown" /\ pc[p] = "done" /\ Failed(p, "delete_vpc")) =>
            LET n == Len(log[p])
            IN /\ n >= 4
               /\ log[p][n - 3].call = "delete_vpc"
               /\ log[p][n - 2].call = "describe_network_interfaces"
               /\ log[p][n - 1].call = "describe_route_tables"
               /\ log[p][n].call = "describe_vpc_endpoints"
               /\ raised[p].call = "delete_vpc"
               /\ raised[p].target = arg[p].vpc_id
               /\ raised[p] = exc[p]

C9_Witness ==
    \E p \in Procs :
        /\ op[p] = "teardown"
        /\ pc[p] = "done"
        /\ Failed(p, "delete_vpc")
        /\ Failed(p, "describe_network_interfaces")
        /\ Failed(p, "describe_route_tables")
        /\ Failed(p, "describe_vpc_endpoints")

\* "{vpcName}-subnet-{i}" for the i-th subnet of the request, i from 1.
PatternName(vpc_name, i) == vpc_name \o "-subnet-" \o ToString(i)

\* The entries of the returned record follow the request: as many, in the
\* same order, each with the cidr and zone of its request subnet and the id
\* the provider gave to the i-th subnet.
FollowsRequest(item, r) ==
    /\ Len(item.subnets) = Len(r.subnets)
    /\ \A i \in 1..Len(r.subnets) :
          /\ item.subnets[i].cidr = r.subnets[i].cidr
          /\ item.subnets[i].availability_zone = r.subnets[i].az
          /\ item.subnets[i].subnet_id = SubnetIdFor(item.vpc_id, i)

\* C10 as stated: the record returned by a run in which every provider call
\* succeeded follows the request, and entry i is named "{vpcName}-subnet-{i}"
\* exactly when request subnet i supplied no name, and carries the supplied
\* name otherwise.
C10_AutoNameIffNoName ==
    \A p \in Procs :
        record[p] # <<>> =>
            LET item == record[p][1]
                r == req[p]
            IN /\ FollowsRequest(item, r)
               /\ \A i \in 1..Len(r.subnets) :
                     IF r.subnets[i].name = PyNone
                     THEN item.subnets[i].name = PatternName(r.vpc_name, i)
                     ELSE item.subnets[i].name = r.subnets[i].name[1]

\* C10 amended: the record returned by a run in which every provider call
\* succeeded follows the request, and entry i is named "{vpcName}-subnet-{i}"
\* when request subnet i supplied no name or an empty name, and carries the
\* supplied name otherwise.
C10_AutoNameIfNoneOrEmpty ==
    \A p \in Procs :
        record[p] # <<>> =>
            LET item == record[p][1]
                r == req[p]
            IN /\ FollowsRequest(item, r)
               /\ \A i \in 1..Len(r.subnets) :
                     IF r.subnets[i].name = PyNone \/ r.subnets[i].name = Some("")
                     THEN item.subnets[i].name = PatternName(r.vpc_name, i)
                     ELSE item.subnets[i].name = r.subnets[i].name[1]

C10_Witness ==
    \E p \in Procs :
        /\ record[p] # <<>>
        /\ Len(record[p][1].subnets) = 3
        /\ record[p][1].subnets[1].name = "my-vpc-subnet-1"
        /\ record[p][1].subnets[2].name = "web"
        /\ record[p][1].subnets[3].name = "my-vpc-subnet-3"

\* C19: when ec2.create_vpc fails it is the only provider call of the run,
\* and create_vpc_with_subnets raises the error of that call.
C19_CreateVpcFailureAborts ==
    \A p \in Procs :
        (op[p] = "create" /\ Failed(p, "create_vpc")) =>
            /\ Len(log[p]) = 1
            /\ pc[p] = "done"
            /\ raised[p].call = "create_vpc"
            /\ raised[p].code \in ErrorCodes
            /\ response[p].detail = raised[p]
            /\ ~saved[p]

C19_Witness ==
    \E p \in Procs :
        /\ op[p] = "create"
        /\ pc[p] = "done"
        /\ Failed(p, "create_vpc")
        /\ store0[p] # << >>

\* The provider calls of create_vpc_with_subnets made outside any try block.
UncaughtCalls ==
    {"enable_dns_hostnames", "enable_dns_support", "create_internet_gateway",
     "attach_internet_gateway"}

\* C20: a failed DNS attribute call, gateway creation or gateway attach ends
\* the run with that error raised and no delete or detach call issued, the
\* network (and for a failed attach the gateway) still existing; a run
\* issues delete or detach calls only after a failed create_subnet.
C20_CleanupOnlyOnSubnetFailure ==
    \A p \in Procs :
        op[p] = "create" =>
            /\ \A c \in UncaughtCalls :
                  Failed(p, c) =>
                     /\ log[p][Len(log[p])].call = c
                     /\ pc[p] = "done"
                     /\ raised[p].call = c
                     /\ \A i \in 1..Len(log[p]) : log[p][i].call \notin CleanupCalls
                     /\ vpc_id[p] \in live
                     /\ c = "attach_internet_gateway" => igw_id[p] \in live
            /\ (\E i \in 1..Len(log[p]) : log[p][i].call \in CleanupCalls) =>
                  Failed(p, "create_subnet")

C20_Witness ==
    \E p \in Procs :
        /\ op[p] = "create"
        /\ pc[p] = "done"
        /\ Failed(p, "attach_internet_gateway")
        /\ igw_id[p] \in live
        /\ vpc_id[p] \in live

\* C15: DELETE /vpc/{vpc_id} for an id with no stored record is answered 404,
\* never 204, and leaves the repository as it was; for an id with a stored
\* record it is answered 204 (the repository call itself not failing).
C15_DeleteStatusFollowsExistence ==
    \A p \in Procs :
        (op[p] = "delete" /\ pc[p] = "done") =>
            IF arg[p].vpc_id \in DOMAIN store0[p]
            THEN response[p].detail = NoErr =>
                     response[p].status = HTTP_204_NO_CONTENT
            ELSE /\ response[p].status # HTTP_204_NO_CONTENT
                 /\ store = store0[p]
                 /\ response[p].detail = NoErr =>
                        response[p].status = HTTP_404_NOT_FOUND

C15_Witness ==
    \E p \in Procs :
        /\ op[p] = "delete"
        /\ pc[p] = "done"
        /\ arg[p].vpc_id = UnknownVpc
        /\ store0[p] # << >>
        /\ response[p].status = HTTP_404_NOT_FOUND

\* A creation request that never reached the orchestrator: no provider call,
\* no network id, no save, the repository as the request found it.
NeverOrchestrated(p) ==
    /\ pc[p] = "done"
    /\ log[p] = <<>>
    /\ vpc_id[p] = NoId
    /\ ~saved[p]
    /\ store = store0[p]
    /\ response[p].status \notin {HTTP_201_CREATED, HTTP_502_BAD_GATEWAY}

\* CIDR texts whose prefix length lies outside [16, 28].
OutOfRangeCidrs ==
    { CidrText(net, n) : net \in Nets, n \in (0..15) \cup (29..32) }

\* The validator rejects each of them.
OutOfRangeRejected == \A v \in OutOfRangeCidrs : ~ValidVpcCidr(v)

\* C11: validation rejects every VPC CIDR whose prefix length is outside
\* [16, 28], and a creation request carrying one issues no provider call
\* and saves nothing.
C11_BadPrefixRejected ==
    /\ OutOfRangeRejected
    /\ \A p \in Procs :
          (op[p] = "create" /\ req[p].vpc_cidr \in OutOfRangeCidrs) =>
              NeverOrchestrated(p)

C11_Witness ==
    \E p \in Procs :
        /\ op[p] = "create"
        /\ pc[p] = "done"
        /\ req[p].vpc_cidr = "10.0.0.0/29"
        /\ store0[p] # << >>
        /\ response[p].status = 422

\* C12: a creation request with an empty subnets list issues no provider
\* call and saves nothing.
C12_EmptySubnetsRejected ==
    \A p \in Procs :
        (op[p] = "create" /\ req[p].subnets = <<>>) => NeverOrchestrated(p)

C12_Witness ==
    \E p \in Procs :
        /\ op[p] = "create"
        /\ pc[p] = "done"
        /\ req[p].subnets = <<>>
        /\ req[p].vpc_cidr = "10.0.0.0/16"
        /\ store0[p] # << >>

\* A list request answered without a repository error.
Listed(p) == op[p] = "list" /\ pc[p] = "done" /\ response[p].detail = NoErr

\* C14: GET /vpc returns exactly the records that were created and not
\* deleted since, each once, with count equal to the number returned; none
\* and count 0 when there are none.
C14_ListIsCreatedMinusDeleted ==
    \A p \in Procs :
        Listed(p) =>
            LET out == response[p].body[1]
            IN /\ response[p].status = HTTP_200_OK
               /\ out.count = Len(out.vpcs)
               /\ Len(out.vpcs) = Cardinality(DOMAIN known)
               /\ {out.vpcs[i] : i \in 1..Len(out.vpcs)} =
                      {known[id] : id \in DOMAIN known}

C14_Witness ==
    \E p \in Procs :
        /\ Listed(p)
        /\ gone = {VpcIdOf(1)}
        /\ response[p].body[1].count = 1
        /\ response[p].body[1].vpcs[1].vpc_id = VpcIdOf(2)

\* C16: GET /vpc/{vpc_id} never changes the repository and never answers
\* 502; for an id with no stored record it is answered 404, and for a
\* stored id 200 with the stored record (the repository call itself not
\* failing).
C16_GetFollowsStore ==
    \A p \in Procs :
        (op[p] = "get" /\ pc[p] = "done") =>
            /\ store = store0[p]
            /\ response[p].status # HTTP_502_BAD_GATEWAY
            /\ IF arg[p].vpc_id \in DOMAIN store0[p]
               THEN response[p].detail = NoErr =>
                       /\ response[p].status = HTTP_200_OK
                       /\ response[p].body = <<store0[p][arg[p].vpc_id]>>
               ELSE /\ response[p].status # HTTP_200_OK
                    /\ response[p].detail = NoErr =>
                           response[p].status = HTTP_404_NOT_FOUND

C16_Witness ==
    \E p \in Procs :
        /\ op[p] = "get"
        /\ pc[p] = "done"
        /\ arg[p].vpc_id \notin DOMAIN store0[p]
        /\ store0[p] # << >>
        /\ response[p].status = HTTP_404_NOT_FOUND

\* C13: once an id has been deleted successfully, the repository holds no
\* record under it and every get for it (the repository call itself not
\* failing) is answered absent / 404, until a later save stores a record
\* under that id again; from then on the id is stored and no longer counts
\* as deleted.
C13_DeletedStaysAbsentUntilSaved ==
    /\ gone \cap DOMAIN store = {}
    /\ \A p \in Procs :
        /\ (op[p] = "get" /\ pc[p] = "done" /\ arg[p].vpc_id \in gone
                /\ response[p].detail = NoErr) =>
               response[p].status = HTTP_404_NOT_FOUND
        /\ (op[p] = "repo.get" /\ pc[p] = "done" /\ arg[p].vpc_id \in gone
                /\ raised[p] = NoErr) =>
               response[p].body = <<PyNone>>
        /\ (op[p] = "repo.save" /\ pc[p] = "done" /\ raised[p] = NoErr) =>
               /\ arg[p].vpc_id \notin gone
               /\ arg[p].vpc_id \in DOMAIN store

C13_Witness ==
    \E p \in Procs :
        /\ op[p] = "get"
        /\ pc[p] = "done"
        /\ arg[p].vpc_id \in gone
        /\ store # << >>
        /\ response[p].status = HTTP_404_NOT_FOUND

\* C18: the repository holds at most one record per id, the one saved last
\* and not deleted since: save replaces the record of its id and leaves every
\* other record as it was, get hands back the stored record or None, delete
\* hands back True exactly when a record existed (so a second delete of the
\* same id hands back False) and removes only that record, and list_all
\* hands back every stored record once.
C18_RepositoryContract ==
    /\ store = known
    /\ \A p \in Procs :
        (pc[p] = "done" /\ raised[p] = NoErr) =>
            LET id == arg[p].vpc_id
                out == response[p].body[1]
            IN  /\ op[p] = "repo.save" =>
                    /\ store = Upsert(store0[p], id, record[p][1])
                    /\ out = PyNone
                /\ op[p] = "repo.get" =>
                    /\ store = store0[p]
                    /\ out = IF id \in DOMAIN store0[p]
                             THEN <<store0[p][id]>> ELSE PyNone
                /\ op[p] = "repo.delete" =>
                    /\ store = Without(store0[p], id)
                    /\ out = (id \in DOMAIN store0[p])
                /\ op[p] = "repo.list_all" =>
                    /\ store = store0[p]
                    /\ Len(out) = Cardinality(DOMAIN store0[p])
                    /\ {out[i] : i \in 1..Len(out)} =
                           {store0[p][k] : k \in DOMAIN store0[p]}

\* A second delete of an id handed back False while another record stayed
\* stored.
C18_Witness ==
    \E p \in Procs :
        /\ op[p] = "repo.delete"
        /\ pc[p] = "done"
        /\ arg[p].vpc_id \in gone
        /\ response[p].body = <<FALSE>>
        /\ store # << >>

\* C17: however the threads that call _get_table interleave, at most one
\* initialisation sequence (build the resource, create or look up the table)
\* runs, not counting a sequence that ended in an error raised to its caller.
C17_TableInitialisedOnce == inits - aborted <= 1

\* The provider calls delete_vpc_resources(a) is to make when none fails.
TeardownPlan(a) ==
    [i \in 1..Len(a.subnet_ids) |-> [call |-> "delete_subnet", target |-> a.subnet_ids[i]]]
    \o (IF a.igw_id # NoId
        THEN << [call |-> "detach_internet_gateway", target |-> a.igw_id],
                [call |-> "delete_internet_gateway", target |-> a.igw_id] >>
        ELSE << >>)
    \o << [call |-> "delete_vpc", target |-> a.vpc_id] >>

\* The calls of a teardown run up to and including its network delete.
TeardownCalls(p) ==
    SelectSeq(log[p], LAMBDA e : e.call \in CleanupCalls)

\* C21: the calls of a teardown run are, in order, a delete for each supplied
\* subnet id in the supplied order, the gateway detach and the gateway delete
\* when (and only when) a gateway id was supplied, and the network delete;
\* each call is issued only after every call before it succeeded, and a run
\* that ended with no failure made all of them.
C21_TeardownOrder ==
    \A p \in Procs :
        op[p] = "teardown" =>
            LET made == TeardownCalls(p)
                plan == TeardownPlan(arg[p])
            IN /\ Len(made) <= Len(plan)
               /\ \A i \in 1..Len(made) :
                     /\ made[i].call = plan[i].call
                     /\ made[i].target = plan[i].target
                     /\ i < Len(made) => made[i].ok
               /\ (pc[p] = "done" /\ raised[p] = NoErr) => Len(made) = Len(plan)
               /\ arg[p].igw_id = NoId =>
                     /\ Calls(p, "detach_internet_gateway") = << >>
                     /\ Calls(p, "delete_internet_gateway") = << >>

\* Without a gateway id: the subnets were deleted in the supplied order and
\* the network delete followed at once.
C21_Witness ==
    \E p \in Procs :
        /\ op[p] = "teardown"
        /\ pc[p] = "done"
        /\ raised[p] = NoErr
        /\ arg[p].igw_id = NoId
        /\ Len(arg[p].subnet_ids) >= 2
        /\ Len(log[p]) = Len(arg[p].subnet_ids) + 1

\* A delete request whose repository call raised a ClientError.
DeleteRaised(p) ==
    op[p] = "delete" /\ pc[p] = "done" /\ response[p].detail # NoErr

\* C22: in DELETE /vpc/{vpc_id} a ClientError with code DependencyViolation
\* is answered 409 and a ClientError with any other code 502; neither is
\* answered 404 or 204, and the record is kept.
C22_DeleteErrorMapping ==
    \A p \in Procs :
        DeleteRaised(p) =>
            /\ response[p].status =
                  IF response[p].detail.code = "DependencyViolation"
                  THEN HTTP_409_CONFLICT ELSE HTTP_502_BAD_GATEWAY
            /\ response[p].status \notin {HTTP_404_NOT_FOUND, HTTP_204_NO_CONTENT}
            /\ store = store0[p]

C22_Witness ==
    \E p \in Procs :
        /\ DeleteRaised(p)
        /\ arg[p].vpc_id \in DOMAIN store
        /\ response[p].detail.code = "DependencyViolation"
        /\ response[p].status = HTTP_409_CONFLICT

\* C25: in the cleanup after a failed create_subnet the subnets created by
\* the run are deleted in creation order; a failed delete does not stop the
\* loop (every created subnet is issued its delete before the gateway
\* detach) and is not what the run raises.
C25_SubnetDeletesBestEffort ==
    \A p \in Procs :
        SubnetFailed(p) =>
            LET made == Calls(p, "delete_subnet")
                ids == SubnetIds(created_subnets[p])
            IN /\ Len(made) <= Len(ids)
               /\ \A i \in 1..Len(made) : made[i].target = ids[i]
               /\ pc[p] # "cleanup_subnets" => Len(made) = Len(ids)
               /\ raised[p].call # "delete_subnet"

\* The first delete failed and the second was made all the same.
C25_Witness ==
    \E p \in Procs :
        /\ CleanupOver(p)
        /\ Len(Calls(p, "delete_subnet")) = 2
        /\ ~Calls(p, "delete_subnet")[1].ok
        /\ Calls(p, "delete_subnet")[2].ok

\* The provider calls create_vpc_with_subnets is to make for request r when
\* none fails (the ids in the targets are those the run was handed).
CreationPlan(p) ==
    << [call |-> "create_vpc", target |-> NoId],
       [call |-> "enable_dns_hostnames", target |-> vpc_id[p]],
       [call |-> "enable_dns_support", target |-> vpc_id[p]],
       [call |-> "create_internet_gateway", target |-> NoId],
       [call |-> "attach_internet_gateway", target |-> igw_id[p]] >>
    \o [i \in 1..Len(req[p].subnets) |->
           [call |-> "create_subnet", target |-> CidrArg(req[p].subnets[i])]]

\* The calls of a creation run that are not cleanup calls.
CreationCalls(p) ==
    SelectSeq(log[p], LAMBDA e : e.call \notin CleanupCalls)

\* C26: the creating calls of a run are, in order, create_vpc, enable DNS
\* hostnames, enable DNS support, create_internet_gateway,
\* attach_internet_gateway and one create_subnet per requested subnet in
\* request order; each is issued only after every call before it succeeded,
\* and they all come before any cleanup call.
C26_CreationSequential ==
    \A p \in Procs :
        op[p] = "create" =>
            LET made == CreationCalls(p)
                plan == CreationPlan(p)
            IN /\ Len(made) <= Len(plan)
               /\ \A i \in 1..Len(made) :
                     /\ made[i].call = plan[i].call
                     /\ made[i].target = plan[i].target
                     /\ i < Len(made) => made[i].ok
                     /\ log[p][i] = made[i]
               /\ pc[p] = "save" => Len(made) = Len(plan)

C26_Witness ==
    \E p \in Procs :
        /\ op[p] = "create"
        /\ pc[p] = "done"
        /\ response[p].status = HTTP_201_CREATED
        /\ Len(req[p].subnets) = MaxSubnets
        /\ Len(log[p]) = Len(CreationPlan(p))

\* The successful create_subnet calls of a run, in the order made.
SubnetsMade(p) ==
    SelectSeq(log[p], LAMBDA e : e.call = "create_subnet" /\ e.ok)

\* A call of the run that succeeded.
Succeeded(p, call) ==
    \E i \in 1..Len(log[p]) : log[p][i].call = call /\ log[p][i].ok

\* C27: a record returned by create_vpc_with_subnets carries the id of the
\* gateway the run created and attached, status "active", and one subnet
\* entry per successful create_subnet call of the run, in the order made;
\* the record that provision_vpc stores is that record.
C27_RecordReflectsRun ==
    \A p \in Procs :
        (op[p] = "create" /\ record[p] # <<>>) =>
            LET rec == record[p][1]
                made == SubnetsMade(p)
            IN /\ rec.igw_id # NoId
               /\ rec.igw_id = igw_id[p]
               /\ Succeeded(p, "create_internet_gateway")
               /\ Succeeded(p, "attach_internet_gateway")
               /\ rec.status = "active"
               /\ Len(rec.subnets) = Len(made)
               /\ \A i \in 1..Len(rec.subnets) :
                     /\ CidrArg(rec.subnets[i]) = made[i].target
                     /\ rec.subnets[i].subnet_id = SubnetIdFor(rec.vpc_id, i)
               /\ response[p].status = HTTP_201_CREATED => store[rec.vpc_id] = rec

C27_Witness ==
    \E p \in Procs :
        /\ op[p] = "create"
        /\ pc[p] = "done"
        /\ response[p].status = HTTP_201_CREATED
        /\ Len(record[p][1].subnets) = 2
        /\ record[p][1].vpc_id \in DOMAIN store

\* The provider resources a creation run was handed.
CreatedBy(p) ==
    (IF vpc_id[p] # NoId THEN {vpc_id[p]} ELSE {})
    \cup (IF igw_id[p] # NoId THEN {igw_id[p]} ELSE {})
    \cup Range(SubnetIds(created_subnets[p]))

\* Every cleanup call of the run succeeded.
CleanupAllOk(p) ==
    \A i \in 1..Len(log[p]) : log[p][i].call \in CleanupCalls => log[p][i].ok

\* C30: when create_subnet failed and every cleanup call succeeded, none of
\* the resources the run created (its subnets, its gateway, its network)
\* exists any more once create_vpc_with_subnets has raised.
C30_NothingOrphaned ==
    \A p \in Procs :
        (CleanupOver(p) /\ CleanupAllOk(p)) => CreatedBy(p) \cap live = {}

C30_Witness ==
    \E p \in Procs :
        /\ CleanupOver(p)
        /\ CleanupAllOk(p)
        /\ Len(created_subnets[p]) = 2
        /\ Len(Calls(p, "delete_subnet")) = 2
        /\ Len(Calls(p, "delete_internet_gateway")) = 1

\* C28: no step changes a record that stays stored: as long as an id is in
\* the repository its record is the one written when it was created; a step
\* of a get or a list request leaves the repository as it was.
C28_StoredRecordImmutable ==
    [][/\ \A id \in (DOMAIN store) \cap (DOMAIN store') : store'[id] = store[id]
       /\ \A p \in Procs :
             pc[p] \in {"repo_get", "repo_scan"} /\ pc'[p] = "done" =>
                 store' = store]_vars

\* Two records are stored and a get for the first was answered with it.
C28_Witness ==
    \E p \in Procs :
        /\ op[p] = "get"
        /\ pc[p] = "done"
        /\ response[p].status = HTTP_200_OK
        /\ arg[p].vpc_id = VpcIdOf(1)
        /\ Cardinality(DOMAIN store) = 2

\* The cleanup calls a run has made.
CleanupCallsOf(p) == SelectSeq(log[p], LAMBDA e : e.call \in CleanupCalls)

\* C29: with two creation runs interleaved, the cleanup of a run names only
\* resources that run created, the two runs create disjoint resources, and a
\* run that has not cleaned up keeps everything it created and, once it has
\* answered 201, its stored record, whatever the other run's cleanup did.
C29_RunsDoNotInterfere ==
    \A p \in Creators :
        /\ \A i \in 1..Len(CleanupCallsOf(p)) :
              CleanupCallsOf(p)[i].target \in CreatedBy(p)
        /\ \A q \in Creators \ {p} :
              /\ CreatedBy(p) \cap CreatedBy(q) = {}
              /\ CleanupCallsOf(q) = <<>> => CreatedBy(q) \subseteq live
              /\ (pc[q] = "done" /\ response[q].status = HTTP_201_CREATED) =>
                    /\ vpc_id[q] \in DOMAIN store
                    /\ store[vpc_id[q]] = record[q][1]

\* One run is in the middle of its cleanup, its subnet deleted, while the
\* other, started after it, is between two create_subnet calls.
C29_Witness ==
    \E p \in Creators : \E q \in Creators \ {p} :
        /\ pc[p] = "cleanup_detach"
        /\ Len(Calls(p, "delete_subnet")) = 1
        /\ vpc_id[p] = VpcIdOf(1)
        /\ pc[q] = "create_subnet"
        /\ vpc_id[q] = VpcIdOf(2)
        /\ Len(created_subnets[q]) = 1
        /\ CreatedBy(q) \subseteq live

\* C23: a create, list, get or delete request whose token verification
\* yields no identity (no header, a bad signature, an expired token, a token
\* without a subject) is answered 401 at once: it makes no provider call,
\* never reaches a repository call, saves nothing and leaves the repository
\* as it found it.
C23_NoIdentityNoWork ==
    \A p \in Workers :
        (op[p] \in VpcOperations /\ get_current_user(token[p]) = PyNone) =>
            /\ pc[p] = "done"
            /\ response[p].status = HTTP_401_UNAUTHORIZED
            /\ response[p].body = <<>>
            /\ log[p] = <<>>
            /\ ~saved[p]
            /\ record[p] = <<>>
            /\ store = store0[p]

\* A delete request with an expired token was answered 401 while a record
\* is stored.
C23_Witness ==
    \E p \in Workers :
        /\ op[p] = "delete"
        /\ pc[p] = "done"
        /\ token[p] = Jwt(Some(CurrentUser), jwt_secret_key, "past")
        /\ response[p].status = HTTP_401_UNAUTHORIZED
        /\ store # << >>

\* The login request of worker p was answered with a bearer token.
TokenIssued(p) ==
    /\ response[p].status = HTTP_200_OK
    /\ Len(response[p].body) = 1
    /\ response[p].body[1].token_type = "bearer"
    /\ response[p].body[1].expires_in > 0

\* C24: an answered login carries a bearer token (token_type "bearer",
\* expires_in > 0) exactly when authenticate_user accepts the submitted
\* pair; a rejected pair is answered 401 with the detail "Incorrect username
\* or password" and no token.
C24_TokenIffAccepted ==
    \A p \in Workers :
        (op[p] = "login" /\ pc[p] = "done") =>
            /\ TokenIssued(p) <=>
                  authenticate_user(form[p].username, form[p].password)
            /\ ~authenticate_user(form[p].username, form[p].password) =>
                  /\ response[p].status = HTTP_401_UNAUTHORIZED
                  /\ response[p].detail.code = "Incorrect username or password"
                  /\ response[p].body = <<>>

\* C31: once a create_subnet call of a run has failed, every later provider
\* call of that run is a cleanup call: no create call follows the failure,
\* so the subnets after the failed one are never asked for.
C31_NoCreateAfterSubnetFailure ==
    \A p \in Procs :
        \A i \in 1..Len(log[p]) :
            (log[p][i].call = "create_subnet" /\ ~log[p][i].ok) =>
                /\ \A j \in (i + 1)..Len(log[p]) : log[p][j].call \in CleanupCalls
                /\ Len(Calls(p, "create_subnet")) = Len(created_subnets[p]) + 1
                /\ Len(Calls(p, "create_subnet")) <= Len(req[p].subnets)

\* The second of MaxSubnets subnets failed and the cleanup has run to its
\* end: two create_subnet calls were made and the rest are cleanup calls.
C31_Witness ==
    \E p \in Procs :
        /\ CleanupOver(p)
        /\ Len(req[p].subnets) = MaxSubnets
        /\ Len(Calls(p, "create_subnet")) = 2
        /\ Len(CleanupCallsOf(p)) = 4

\* A run of worker p is in progress.
Running(p) == pc[p] \notin {"idle", "done"}

\* No call of the run was made twice: only create_subnet and delete_subnet
\* occur more than once, each time for another subnet (the i-th
\* create_subnet is for the i-th requested subnet, the deleted ids are
\* distinct); a creation run asks for at most its N subnets and deletes at
\* most the k-1 it created, a teardown run deletes at most the subnets it
\* was given.
CallBudget(p) ==
    /\ \A i \in 1..Len(log[p]) : \A j \in (i + 1)..Len(log[p]) :
          log[p][i].call = log[p][j].call =>
              /\ log[p][i].call \in {"create_subnet", "delete_subnet"}
              /\ log[p][i].call = "delete_subnet" =>
                    log[p][i].target # log[p][j].target
    /\ op[p] = "create" =>
          /\ Len(Calls(p, "create_subnet")) <= Len(req[p].subnets)
          /\ \A i \in 1..Len(Calls(p, "create_subnet")) :
                Calls(p, "create_subnet")[i].target = CidrArg(req[p].subnets[i])
          /\ Len(Calls(p, "delete_subnet")) <= Len(created_subnets[p])
          /\ Len(created_subnets[p]) < Len(req[p].subnets) \/ CleanupCallsOf(p) = <<>>
          /\ pc[p] = "done" =>
                response[p].status \in {HTTP_201_CREATED, HTTP_502_BAD_GATEWAY}
    /\ op[p] = "teardown" =>
          Len(Calls(p, "delete_subnet")) <= Len(arg[p].subnet_ids)

\* C32: assuming every call returns, a creation run and a teardown run that
\* has started reaches its end (answered 201 or 502, returned or raised),
\* and no run repeats a call: the compensation of a failed creation makes
\* at most k-1 subnet deletes, one detach, one gateway delete and one
\* network delete.
C32_RunsTerminate ==
    /\ \A p \in Workers : Running(p) ~> pc[p] = "done"
    /\ [](\A p \in Workers : CallBudget(p))

\* The last of MaxSubnets subnets failed and the cleanup made every one of
\* its calls: the longest creation run there is, at its end.
C32_Witness ==
    \E p \in Workers :
        /\ CleanupOver(p)
        /\ Len(Calls(p, "create_subnet")) = MaxSubnets
        /\ Len(CleanupCallsOf(p)) = MaxSubnets + 2
        /\ Len(log[p]) = 2 * MaxSubnets + 7

\* The creation request of worker p whose provider calls all succeeded and
\* whose repo.save raised.
SaveRaised(p) ==
    /\ op[p] = "create"
    /\ saved[p]
    /\ pc[p] = "done"
    /\ response[p].status # HTTP_201_CREATED

\* C33: when every provider call of a creation succeeded and repo.save
\* failed, no delete or detach call is made, the route answers with the
\* save error, the network, gateway and subnets of the run still exist and
\* the repository holds no record of them.
C33_SaveFailureLeavesResources ==
    \A p \in Workers :
        SaveRaised(p) =>
            /\ \A i \in 1..Len(log[p]) : log[p][i].ok
            /\ CleanupCallsOf(p) = <<>>
            /\ response[p].status = HTTP_502_BAD_GATEWAY
            /\ response[p].detail.call = "put_item"
            /\ response[p].body = <<>>
            /\ Len(created_subnets[p]) = Len(req[p].subnets)
            /\ CreatedBy(p) \subseteq live
            /\ Cardinality(CreatedBy(p)) = Len(req[p].subnets) + 2
            /\ vpc_id[p] \notin DOMAIN store
            /\ store = store0[p]

\* A creation with MaxSubnets subnets made all its provider calls and its
\* save failed.
C33_Witness ==
    \E p \in Workers :
        /\ SaveRaised(p)
        /\ Len(req[p].subnets) = MaxSubnets
        /\ response[p].detail.call = "put_item"
        /\ Cardinality(live) = MaxSubnets + 2

\* Two delete requests for the same id, each begun while its record was
\* stored, both answered.
DeletedTogether(p, q, id) ==
    /\ p # q
    /\ op[p] = "delete" /\ op[q] = "delete"
    /\ arg[p].vpc_id = id /\ arg[q].vpc_id = id
    /\ id \in DOMAIN store0[p] /\ id \in DOMAIN store0[q]
    /\ pc[p] = "done" /\ pc[q] = "done"

\* C34: of two concurrent delete requests for the same stored id that
\* delete_item answered, exactly one finds the record and is answered 204,
\* the other is answered 404, and the record is gone; whatever the
\* interleaving and the errors, the two are never both answered 204, and a
\* 204 means the record is gone.
C34_OneDeleteWins ==
    \A p \in Deleters : \A q \in Deleters : \A id \in DOMAIN store0[p] :
        DeletedTogether(p, q, id) =>
            /\ ~(/\ response[p].status = HTTP_204_NO_CONTENT
                 /\ response[q].status = HTTP_204_NO_CONTENT)
            /\ response[p].status = HTTP_204_NO_CONTENT => id \notin DOMAIN store
            /\ (response[p].detail = NoErr /\ response[q].detail = NoErr) =>
                  /\ {response[p].status, response[q].status} =
                        {HTTP_204_NO_CONTENT, HTTP_404_NOT_FOUND}
                  /\ id \notin DOMAIN store

\* Both requests began while the record was stored; the second worker's
\* delete won and the first was answered 404.
C34_Witness ==
    /\ DeletedTogether(1, 2, VpcIdOf(1))
    /\ response[1].status = HTTP_404_NOT_FOUND
    /\ response[2].status = HTTP_204_NO_CONTENT
    /\ store = << >>

\* The calls of the run that failed, in the order made.
FailedCalls(p) == SelectSeq(log[p], LAMBDA e : ~e.ok)

\* C35: an answered creation request that passed validation is answered
\* either 201 or 502.  It is answered 201, with the stored record as body,
\* only when every provider call of the plan succeeded and repo.save stored
\* the record; when a provider call failed it is answered 502 with the
\* error of the first call that failed (never a cleanup call's error), and
\* when repo.save failed it is answered 502 with the put_item error.
C35_CreateAnswer ==
    \A p \in Workers :
        (op[p] = "create" /\ pc[p] = "done" /\ ValidRequest(req[p])) =>
            /\ response[p].status \in {HTTP_201_CREATED, HTTP_502_BAD_GATEWAY}
            /\ response[p].status = HTTP_201_CREATED =>
                  /\ FailedCalls(p) = <<>>
                  /\ Len(log[p]) = Len(CreationPlan(p))
                  /\ saved[p]
                  /\ record[p] # <<>>
                  /\ vpc_id[p] \in DOMAIN store
                  /\ store[vpc_id[p]] = record[p][1]
                  /\ response[p].body = <<VPCResponse(record[p][1])>>
                  /\ response[p].detail = NoErr
            /\ FailedCalls(p) # <<>> =>
                  /\ response[p].status = HTTP_502_BAD_GATEWAY
                  /\ response[p].body = <<>>
                  /\ response[p].detail.call = FailedCalls(p)[1].call
                  /\ response[p].detail.target = FailedCalls(p)[1].target
                  /\ response[p].detail.call \notin CleanupCalls
                  /\ response[p].detail.code \in ErrorCodes
            /\ (FailedCalls(p) = <<>> /\ response[p].status = HTTP_502_BAD_GATEWAY) =>
                  /\ saved[p]
                  /\ response[p].detail.call = "put_item"
                  /\ response[p].detail.code \in ErrorCodes
                  /\ vpc_id[p] \notin DOMAIN store

\* With one record already stored, a second creation failed at the gateway
\* attachment and was answered 502 with that error.
C35_Witness ==
    \E p \in Workers :
        /\ op[p] = "create"
        /\ pc[p] = "done"
        /\ response[p].status = HTTP_502_BAD_GATEWAY
        /\ response[p].detail.call = "attach_internet_gateway"
        /\ store # << >>

====
